---- MODULE Spec2Model ----
(***************************************************************************)
(* A model of claude-burn-rate's analytics core: the pricing table         *)
(* (src/cost/pricing.js), the overview aggregator                          *)
(* (src/analysis/overview.js), the session indexer (src/data/reader.js)    *)
(* and the per-session token aggregation (src/data/session-parser.js).     *)
(*                                                                         *)
(* Conventions                                                             *)
(*  - A JavaScript string that the code inspects (startsWith, includes)    *)
(*    is a sequence of one-character strings.                              *)
(*  - A JavaScript object whose entries the code iterates is a sequence of *)
(*    [k, v] records with distinct keys, in insertion order.               *)
(*  - Money is exact: a rate is in hundredths of a USD per million tokens, *)
(*    so a cost is an integer number of 1e-8 USD.  The rounding of IEEE    *)
(*    doubles is not modelled.                                             *)
(*  - Undefined is an absent property, NaN the number JavaScript computes  *)
(*    from it; every genuine count or cost is >= 0.                        *)
(***************************************************************************)
EXTENDS Integers, Sequences, FiniteSets, TLC

VARIABLES
    \* pricing.js: the last call of getPricing / calculateCost
    priceOp, reqModelId, reqUsage, resPricing, resCost,
    \* overview.js: the summary cache object, the last call and its result
    stats, altStats, call, overview, altOverview, calls,
    \* and the result of the same call made once more
    overviewAgain,
    \* reader.js: the projects directory and the indexer's answer
    projects, indexes, indexed,
    \* session-parser.js: parsed sessions and their aggregated tokens
    parsedSessions, perSession, summed,
    \* session-parser.js: a session's messages and its paired turns
    turnSession, pairs,
    \* security.js: the last call of one of its functions, and, for
    \* assessMcpRisk, the same call on a second configuration
    secOp, secArg, secResult, secAltArg, secAltResult,
    \* sessions.js: a session list, the filters of a request and the answer
    fltSessions, fltFilters, fltResult, fltDone,
    \* server.js and api.js: the clock, the summary cache file (the number of
    \* its changes) and the change notifications not yet delivered,
    srvNow, diskVersion, pendingNotices, notified,
    \* the memoized overview and its time, the memoized session list, and for
    \* each the change of the file it was read after,
    cachedOverview, cacheTime, overviewReadAt, cachedSessions, sessionsReadAt,
    \* the clients of /events with the last notification each received, and
    \* the overview requests
    sseClients, delivered, inflight,
    \* session-parser.js, sessions.js: the lines of a session file, the
    \* session read from it and its summary in the session list
    fileLines, fileSession, fileSummary,
    \* the indexer's probe of one session file: where it is in the file and
    \* what it has found
    probe,
    \* expensive-prompts.js: the session files on disk, the memoized
    \* ranking, the calls so far, the last call and its answer
    sessionFiles, cachedExpensive, expensiveCalls, expensiveCall, expensiveResult

priceVars == <<priceOp, reqModelId, reqUsage, resPricing, resCost>>
overviewVars == <<stats, altStats, call, overview, altOverview, calls, overviewAgain>>
indexVars == <<projects, indexes, indexed>>
tokenVars == <<parsedSessions, perSession, summed>>
turnVars == <<turnSession, pairs>>
\* the state of the analyses that read parsed sessions
securityVars == <<secOp, secArg, secResult, secAltArg, secAltResult>>
filterVars == <<fltSessions, fltFilters, fltResult, fltDone>>
otherVars == <<turnVars, securityVars, filterVars>>
serverVars ==
    <<srvNow, diskVersion, pendingNotices, notified, cachedOverview, cacheTime,
      overviewReadAt, cachedSessions, sessionsReadAt, sseClients, delivered, inflight>>
parserVars == <<fileLines, fileSession, fileSummary>>
probeVars == <<probe>>
expensiveVars == <<sessionFiles, cachedExpensive, expensiveCalls, expensiveCall, expensiveResult>>
vars == <<priceVars, overviewVars, indexVars, tokenVars, otherVars, serverVars, parserVars, probeVars, expensiveVars>>

(***************************************************************************)
(* JavaScript values                                                       *)
(***************************************************************************)
\* null where a number or a date is expected
Null == -3

\* null where an object is expected
NullObj == [null |-> TRUE]

\* null where an array or an iterated object is expected (no array of the
\* program holds null)
NullArr == <<NullObj>>

\* null where a string is expected (no string of the program has an empty
\* character)
NullStr == <<"">>

\* an absent property (undefined)
Undefined == -2

\* the result of arithmetic on undefined
NaN == -1

\* const v = x; F(v): the value is computed once and named
Bind(x, F(_)) == CHOOSE r \in {F(v) : v \in {x}} : TRUE

\* x || 0
Or0(x) == IF x = Undefined \/ x = NaN THEN 0 ELSE x

\* a + b on numbers, undefined or NaN
JsAdd(a, b) == IF a < 0 \/ b < 0 THEN NaN ELSE a + b

\* a * b on numbers, undefined or NaN
JsMul(a, b) == IF a < 0 \/ b < 0 THEN NaN ELSE a * b

\* !x for a number, undefined or NaN
Falsy(x) == x = 0 \/ x = Undefined \/ x = NaN

startsWith(s, prefix) ==
    /\ Len(s) >= Len(prefix)
    /\ SubSeq(s, 1, Len(prefix)) = prefix

includes(s, sub) ==
    \E i \in 1..(Len(s) - Len(sub) + 1) : SubSeq(s, i, i + Len(sub) - 1) = sub

\* obj[k] exists as an own entry
HasKey(obj, key) == \E i \in 1..Len(obj) : obj[i].k = key

IndexOfKey(obj, key) == CHOOSE i \in 1..Len(obj) : obj[i].k = key

GetKey(obj, key) == obj[IndexOfKey(obj, key)].v

\* obj[k] = v: overwrite in place, or append a new entry
SetKey(obj, key, val) ==
    IF HasKey(obj, key)
    THEN [obj EXCEPT ![IndexOfKey(obj, key)] = [k |-> key, v |-> val]]
    ELSE Append(obj, [k |-> key, v |-> val])

Keys(obj) == {obj[i].k : i \in 1..Len(obj)}

\* the sum of s[1..n], added left to right
RECURSIVE SumTo(_, _)
SumTo(s, n) == IF n = 0 THEN 0 ELSE JsAdd(SumTo(s, n - 1), s[n])

SumSeq(seq) == Bind(seq, LAMBDA s : SumTo(s, Len(s)))

(***************************************************************************)
(* pricing.js                                                              *)
(***************************************************************************)
KeyOpus46 == <<"c","l","a","u","d","e","-","o","p","u","s","-","4","-","6">>
KeyOpus45 == <<"c","l","a","u","d","e","-","o","p","u","s","-","4","-","5","-","2","0","2","5","1","1","0","1">>
KeySonnet46 == <<"c","l","a","u","d","e","-","s","o","n","n","e","t","-","4","-","6">>
KeySonnet45 == <<"c","l","a","u","d","e","-","s","o","n","n","e","t","-","4","-","5","-","2","0","2","5","0","9","2","9">>
KeyHaiku45 == <<"c","l","a","u","d","e","-","h","a","i","k","u","-","4","-","5","-","2","0","2","5","1","0","0","1">>

OpusRates == [input |-> 1500, output |-> 7500, cacheRead |-> 150, cacheWrite |-> 1875]
SonnetRates == [input |-> 300, output |-> 1500, cacheRead |-> 30, cacheWrite |-> 375]
HaikuRates == [input |-> 80, output |-> 400, cacheRead |-> 8, cacheWrite |-> 100]

Entry(rates, name) ==
    [input |-> rates.input, output |-> rates.output, cacheRead |-> rates.cacheRead,
     cacheWrite |-> rates.cacheWrite, displayName |-> name]

\* the table, in the order of its keys
MODEL_PRICING ==
    << [k |-> KeyOpus46, v |-> Entry(OpusRates, "Claude Opus 4.6")],
       [k |-> KeyOpus45, v |-> Entry(OpusRates, "Claude Opus 4.5")],
       [k |-> KeySonnet46, v |-> Entry(SonnetRates, "Claude Sonnet 4.6")],
       [k |-> KeySonnet45, v |-> Entry(SonnetRates, "Claude Sonnet 4.5")],
       [k |-> KeyHaiku45, v |-> Entry(HaikuRates, "Claude Haiku 4.5")] >>

FALLBACK_PRICING == Entry(SonnetRates, "Unknown Model")

\* MODEL_PRICING is an object literal: MODEL_PRICING[id] also finds what the
\* object inherits from Object.prototype, a truthy value with no rate fields.
IdConstructor == <<"c","o","n","s","t","r","u","c","t","o","r">>
IdToString == <<"t","o","S","t","r","i","n","g">>
IdProto == <<"_","_","p","r","o","t","o","_","_">>
InheritedKeys == {IdConstructor, IdToString, IdProto}

InheritedMember ==
    [input |-> Undefined, output |-> Undefined, cacheRead |-> Undefined,
     cacheWrite |-> Undefined, displayName |-> ""]

StrOpus == <<"o","p","u","s">>
StrHaiku == <<"h","a","i","k","u">>

\* MODEL_PRICING[modelId] is truthy
TableHas(modelId) == HasKey(MODEL_PRICING, modelId) \/ modelId \in InheritedKeys

\* MODEL_PRICING[modelId]
TableLookup(modelId) ==
    IF HasKey(MODEL_PRICING, modelId) THEN GetKey(MODEL_PRICING, modelId) ELSE InheritedMember

\* the keys of Object.entries(MODEL_PRICING) that modelId starts with
PrefixMatches(modelId) ==
    {i \in 1..Len(MODEL_PRICING) : startsWith(modelId, MODEL_PRICING[i].k)}

\* the first of them, which the loop returns
FirstPrefixMatch(modelId) ==
    MODEL_PRICING[CHOOSE i \in PrefixMatches(modelId) :
                      \A j \in PrefixMatches(modelId) : i <= j].v

getPricing(modelId) ==
    IF TableHas(modelId) THEN TableLookup(modelId)
    ELSE IF PrefixMatches(modelId) # {} THEN FirstPrefixMatch(modelId)
    ELSE IF includes(modelId, StrOpus)
         THEN [FALLBACK_PRICING EXCEPT !.input = 1500, !.output = 7500,
                                       !.cacheRead = 150, !.cacheWrite = 1875]
    ELSE IF includes(modelId, StrHaiku)
         THEN [FALLBACK_PRICING EXCEPT !.input = 80, !.output = 400,
                                       !.cacheRead = 8, !.cacheWrite = 100]
    ELSE FALLBACK_PRICING

calculateCost(usage, modelId) ==
    Bind(getPricing(modelId), LAMBDA pricing :
    LET inputCost == JsMul(Or0(usage.inputTokens), pricing.input)
        outputCost == JsMul(Or0(usage.outputTokens), pricing.output)
        cacheReadCost == JsMul(Or0(usage.cacheReadInputTokens), pricing.cacheRead)
        cacheWriteCost == JsMul(Or0(usage.cacheCreationInputTokens), pricing.cacheWrite)
    IN [inputCost |-> inputCost,
        outputCost |-> outputCost,
        cacheReadCost |-> cacheReadCost,
        cacheWriteCost |-> cacheWriteCost,
        totalCost |-> JsAdd(JsAdd(JsAdd(inputCost, outputCost), cacheReadCost), cacheWriteCost),
        breakdown |-> [inputTokens |-> Or0(usage.inputTokens),
                       outputTokens |-> Or0(usage.outputTokens),
                       cacheReadInputTokens |-> Or0(usage.cacheReadInputTokens),
                       cacheCreationInputTokens |-> Or0(usage.cacheCreationInputTokens)]])

\* byModel[modelId] = { ...cost, displayName: pricing.displayName || modelId }
CostInfo(usage, modelId) ==
    Bind(calculateCost(usage, modelId), LAMBDA cost :
    Bind(getPricing(modelId), LAMBDA pricing :
       [inputCost |-> cost.inputCost, outputCost |-> cost.outputCost,
        cacheReadCost |-> cost.cacheReadCost, cacheWriteCost |-> cost.cacheWriteCost,
        totalCost |-> cost.totalCost,
        displayName |-> IF pricing.displayName = "" THEN modelId ELSE pricing.displayName]))

calculateTotalCost(modelUsage) ==
    Bind([i \in 1..Len(modelUsage) |->
             [k |-> modelUsage[i].k, v |-> CostInfo(modelUsage[i].v, modelUsage[i].k)]],
         LAMBDA byModel :
             [totalCost |-> SumSeq([i \in 1..Len(byModel) |-> byModel[i].v.totalCost]),
              byModel |-> byModel])

(***************************************************************************)
(* Calls of the pricing functions                                          *)
(***************************************************************************)
\* the largest token counter of a usage record
MaxTokens == 2

DateSuffix == <<"-","2","0","2","6","0","1","0","1">>
IdOpus99 == <<"c","l","a","u","d","e","-","o","p","u","s","-","9","9">>
IdRandom == <<"s","o","m","e","-","r","a","n","d","o","m","-","m","o","d","e","l">>
IdTestModel == <<"t","e","s","t","-","m","o","d","e","l">>
IdHaiku9 == <<"c","l","a","u","d","e","-","h","a","i","k","u","-","9">>
IdOpusHaiku == <<"o","p","u","s","-","h","a","i","k","u">>

TableKeys == Keys(MODEL_PRICING)

\* the strings getPricing is called with
PricingIds ==
    TableKeys \cup {key \o DateSuffix : key \in TableKeys}
        \cup {IdOpus99, IdRandom, IdTestModel, IdHaiku9, IdOpusHaiku, <<>>}
        \cup InheritedKeys

Counters == {"inputTokens", "outputTokens", "cacheReadInputTokens", "cacheCreationInputTokens"}

\* usage records; a counter may be absent
Usages(maxTokens) == [Counters -> (0..maxTokens) \cup {Undefined}]

PriceIdle ==
    /\ priceOp = "none"
    /\ reqModelId = <<>>
    /\ reqUsage = NullObj
    /\ resPricing = NullObj
    /\ resCost = NullObj

CallGetPricing ==
    /\ priceOp = "none"
    /\ \E modelId \in PricingIds :
        /\ priceOp' = "getPricing"
        /\ reqModelId' = modelId
        /\ reqUsage' = NullObj
        /\ resPricing' = getPricing(modelId)
        /\ resCost' = NullObj
    /\ UNCHANGED <<overviewVars, indexVars, tokenVars, otherVars, serverVars, parserVars, probeVars, expensiveVars>>

CallCalculateCost ==
    /\ priceOp = "none"
    /\ \E modelId \in PricingIds, usage \in Usages(MaxTokens) :
        /\ priceOp' = "calculateCost"
        /\ reqModelId' = modelId
        /\ reqUsage' = usage
        /\ resPricing' = getPricing(modelId)
        /\ resCost' = calculateCost(usage, modelId)
    /\ UNCHANGED <<overviewVars, indexVars, tokenVars, otherVars, serverVars, parserVars, probeVars, expensiveVars>>

(***************************************************************************)
(* stats-parser.js                                                         *)
(***************************************************************************)
\* x || [] and x || {} for an array or an object that may be absent
OrEmpty(x) == IF x = NullArr THEN <<>> ELSE x

parseStatsCache(st) ==
    [lastComputedDate |-> st.lastComputedDate,
     dailyActivity |-> OrEmpty(st.dailyActivity),
     dailyModelTokens |-> OrEmpty(st.dailyModelTokens),
     modelUsage |-> OrEmpty(st.modelUsage),
     totalSessions |-> Or0(st.totalSessions),
     totalMessages |-> Or0(st.totalMessages),
     longestSession |-> st.longestSession,
     firstSessionDate |-> st.firstSessionDate,
     hourCounts |-> OrEmpty(st.hourCounts)]

\* dates are day numbers: an ISO date string orders as its day does
MinDate(dates) == CHOOSE d \in dates : \A e \in dates : d <= e
MaxDate(dates) == CHOOSE d \in dates : \A e \in dates : e <= d

DatesOf(dailyActivity) == {dailyActivity[i].date : i \in 1..Len(dailyActivity)}

\* { start, end, days } over the dates of a non-empty daily activity
RangeOf(dailyActivity) ==
    [start |-> MinDate(DatesOf(dailyActivity)),
     end |-> MaxDate(DatesOf(dailyActivity)),
     days |-> MaxDate(DatesOf(dailyActivity)) - MinDate(DatesOf(dailyActivity)) + 1]

NoRange == [start |-> Null, end |-> Null, days |-> 0]

getDateRange(parsed) ==
    IF parsed.dailyActivity = <<>> THEN NoRange ELSE RangeOf(parsed.dailyActivity)

(***************************************************************************)
(* overview.js                                                             *)
(***************************************************************************)
\* Math.round(a / b) for a >= 0, b > 0
RoundDiv(a, b) == (2 * a + b) \div (2 * b)

\* (a / b * scale).toFixed(1): the decimal string, as its number of tenths
Fixed1(a, b, scale) == [tenths |-> RoundDiv(a * scale * 10, b)]

\* the string '0'
PlainZero == [str |-> "0"]

ZeroUsage ==
    [inputTokens |-> 0, outputTokens |-> 0,
     cacheReadInputTokens |-> 0, cacheCreationInputTokens |-> 0]

\* modelUsage[model] (created at zero if absent) += tokens, each counter || 0
AddTokens(modelUsage, model, tokens) ==
    LET cur == IF HasKey(modelUsage, model) THEN GetKey(modelUsage, model) ELSE ZeroUsage
    IN SetKey(modelUsage, model,
              [inputTokens |-> JsAdd(cur.inputTokens, Or0(tokens.inputTokens)),
               outputTokens |-> JsAdd(cur.outputTokens, Or0(tokens.outputTokens)),
               cacheReadInputTokens |->
                   JsAdd(cur.cacheReadInputTokens, Or0(tokens.cacheReadInputTokens)),
               cacheCreationInputTokens |->
                   JsAdd(cur.cacheCreationInputTokens, Or0(tokens.cacheCreationInputTokens))])

RECURSIVE AddAllTokens(_, _)
AddAllTokens(modelUsage, entries) ==
    IF entries = <<>> THEN modelUsage
    ELSE Bind(AddTokens(modelUsage, Head(entries).k, Head(entries).v),
              LAMBDA added : AddAllTokens(added, Tail(entries)))

\* the per-model token sums of a session list
RECURSIVE AggregateUsage(_, _)
AggregateUsage(modelUsage, sessions) ==
    IF sessions = <<>> THEN modelUsage
    ELSE Bind(AddAllTokens(modelUsage, Head(sessions).tokensByModel),
              LAMBDA added : AggregateUsage(added, Tail(sessions)))

\* tokensByModel[model] += tokens.outputTokens || 0
RECURSIVE AddOutputTokens(_, _)
AddOutputTokens(tokensByModel, entries) ==
    IF entries = <<>> THEN tokensByModel
    ELSE LET model == Head(entries).k
             cur == IF HasKey(tokensByModel, model) THEN GetKey(tokensByModel, model) ELSE 0
         IN Bind(SetKey(tokensByModel, model, cur + Or0(Head(entries).v.outputTokens)),
                 LAMBDA added : AddOutputTokens(added, Tail(entries)))

\* dailyMap[s.date], created if absent, counts the session s
AddToDay(dailyMap, s) ==
    Bind(IF HasKey(dailyMap, s.date) THEN GetKey(dailyMap, s.date)
         ELSE [date |-> s.date, messageCount |-> 0, sessionCount |-> 0,
               toolCallCount |-> 0, tokensByModel |-> <<>>],
         LAMBDA cur :
             SetKey(dailyMap, s.date,
                    [cur EXCEPT !.messageCount = @ + Or0(s.messages),
                                !.sessionCount = @ + 1,
                                !.tokensByModel = AddOutputTokens(@, s.tokensByModel)]))

\* the dailyMap of a session list: only sessions with a date are counted
RECURSIVE BuildDailyMap(_, _)
BuildDailyMap(dailyMap, sessions) ==
    IF sessions = <<>> THEN dailyMap
    ELSE Bind(IF Head(sessions).date = Null THEN dailyMap
              ELSE AddToDay(dailyMap, Head(sessions)),
              LAMBDA added : BuildDailyMap(added, Tail(sessions)))

\* Object.values(dailyMap).sort((a, b) => a.date.localeCompare(b.date))
RECURSIVE InsertByDate(_, _)
InsertByDate(sorted, d) ==
    IF sorted = <<>> THEN <<d>>
    ELSE IF d.date < Head(sorted).date THEN <<d>> \o sorted
    ELSE <<Head(sorted)>> \o InsertByDate(Tail(sorted), d)

RECURSIVE SortByDate(_)
SortByDate(days) ==
    IF days = <<>> THEN <<>>
    ELSE Bind(SortByDate(SubSeq(days, 1, Len(days) - 1)),
              LAMBDA sorted : InsertByDate(sorted, days[Len(days)]))

DailyValues(dailyMap) ==
    Bind([i \in 1..Len(dailyMap) |-> dailyMap[i].v], LAMBDA days : SortByDate(days))

\* sum of s.messages || 0
RECURSIVE SumMessages(_)
SumMessages(sessions) ==
    IF sessions = <<>> THEN 0 ELSE Or0(Head(sessions).messages) + SumMessages(Tail(sessions))

buildDailyCosts(dailyModelTokens) ==
    [i \in 1..Len(dailyModelTokens) |->
        Bind(dailyModelTokens[i], LAMBDA day :
        Bind([j \in 1..Len(day.tokensByModel) |->
                 calculateCost([ZeroUsage EXCEPT !.inputTokens = Undefined,
                                                 !.cacheReadInputTokens = Undefined,
                                                 !.cacheCreationInputTokens = Undefined,
                                                 !.outputTokens = day.tokensByModel[j].v],
                               day.tokensByModel[j].k).totalCost],
             LAMBDA costs :
           [date |-> day.date,
            cost |-> SumSeq(costs),
            byModel |-> [j \in 1..Len(day.tokensByModel) |->
                            [k |-> day.tokensByModel[j].k,
                             v |-> [tokens |-> day.tokensByModel[j].v, cost |-> costs[j]]]]]))]

buildDailyTokens(dailyModelTokens) ==
    [i \in 1..Len(dailyModelTokens) |->
        LET day == dailyModelTokens[i]
        IN [date |-> day.date,
            total |-> SumSeq([j \in 1..Len(day.tokensByModel) |-> day.tokensByModel[j].v]),
            byModel |-> day.tokensByModel]]

\* rows.sort((a, b) => b.totalCost - a.totalCost): stable, dearest first
RECURSIVE InsertByCost(_, _)
InsertByCost(sorted, row) ==
    IF sorted = <<>> THEN <<row>>
    ELSE IF row.totalCost > Head(sorted).totalCost THEN <<row>> \o sorted
    ELSE <<Head(sorted)>> \o InsertByCost(Tail(sorted), row)

RECURSIVE SortByCost(_)
SortByCost(rows) ==
    IF rows = <<>> THEN <<>>
    ELSE Bind(SortByCost(SubSeq(rows, 1, Len(rows) - 1)),
              LAMBDA sorted : InsertByCost(sorted, rows[Len(rows)]))

\* one row of the model breakdown
BreakdownRow(modelId, usage, costInfo) ==
    [modelId |-> modelId,
     displayName |-> costInfo.displayName,
     totalCost |-> Or0(costInfo.totalCost),
     inputTokens |-> Or0(usage.inputTokens),
     outputTokens |-> Or0(usage.outputTokens),
     cacheReadInputTokens |-> Or0(usage.cacheReadInputTokens),
     cacheCreationInputTokens |-> Or0(usage.cacheCreationInputTokens),
     costBreakdown |-> [input |-> Or0(costInfo.inputCost),
                        output |-> Or0(costInfo.outputCost),
                        cacheRead |-> Or0(costInfo.cacheReadCost),
                        cacheWrite |-> Or0(costInfo.cacheWriteCost)]]

buildModelBreakdown(modelUsage, costByModel) ==
    Bind([i \in 1..Len(modelUsage) |->
             BreakdownRow(modelUsage[i].k, modelUsage[i].v,
                          GetKey(costByModel, modelUsage[i].k))],
         LAMBDA rows : SortByCost(rows))

buildTokenComposition(modelUsage) ==
    Bind(SumSeq([i \in 1..Len(modelUsage) |-> Or0(modelUsage[i].v.inputTokens)]),
         LAMBDA totalInput :
    Bind(SumSeq([i \in 1..Len(modelUsage) |-> Or0(modelUsage[i].v.outputTokens)]),
         LAMBDA totalOutput :
    Bind(SumSeq([i \in 1..Len(modelUsage) |-> Or0(modelUsage[i].v.cacheReadInputTokens)]),
         LAMBDA totalCacheRead :
    Bind(SumSeq([i \in 1..Len(modelUsage) |-> Or0(modelUsage[i].v.cacheCreationInputTokens)]),
         LAMBDA totalCacheWrite :
    Bind(totalInput + totalOutput + totalCacheRead + totalCacheWrite, LAMBDA total :
       [input |-> totalInput,
        output |-> totalOutput,
        cacheRead |-> totalCacheRead,
        cacheWrite |-> totalCacheWrite,
        total |-> total,
        percentages |->
            IF total > 0
            THEN [input |-> Fixed1(totalInput, total, 100),
                  output |-> Fixed1(totalOutput, total, 100),
                  cacheRead |-> Fixed1(totalCacheRead, total, 100),
                  cacheWrite |-> Fixed1(totalCacheWrite, total, 100)]
            ELSE [input |-> PlainZero, output |-> PlainZero,
                  cacheRead |-> PlainZero, cacheWrite |-> PlainZero]])))))

\* a / b as a fraction (0 when there is no active day)
PerDay(a, activeDays) ==
    IF activeDays > 0 THEN [num |-> a, den |-> activeDays] ELSE [num |-> 0, den |-> 1]

\* the three day-normalised averages
Averages(totalMessages, totalSessions, totalCost, activeDays) ==
    [avgMessagesPerDay |-> IF activeDays > 0 THEN RoundDiv(totalMessages, activeDays) ELSE 0,
     avgSessionsPerDay |->
         IF activeDays > 0 THEN Fixed1(totalSessions, activeDays, 1) ELSE PlainZero,
     avgCostPerDay |-> PerDay(totalCost, activeDays)]

RECURSIVE SumToolCalls(_)
SumToolCalls(dailyActivity) ==
    IF dailyActivity = <<>> THEN 0
    ELSE Or0(Head(dailyActivity).toolCallCount) + SumToolCalls(Tail(dailyActivity))

buildFromStats(st) ==
    Bind(parseStatsCache(st), LAMBDA parsed :
    Bind(calculateTotalCost(parsed.modelUsage), LAMBDA costResult :
    Bind(Len(parsed.dailyActivity), LAMBDA activeDays :
    Bind(Averages(parsed.totalMessages, parsed.totalSessions,
                  costResult.totalCost, activeDays), LAMBDA avg :
       [totalCost |-> costResult.totalCost,
        totalSessions |-> parsed.totalSessions,
        totalMessages |-> parsed.totalMessages,
        totalToolCalls |-> SumToolCalls(parsed.dailyActivity),
        dateRange |-> getDateRange(parsed),
        activeDays |-> activeDays,
        avgMessagesPerDay |-> avg.avgMessagesPerDay,
        avgSessionsPerDay |-> avg.avgSessionsPerDay,
        avgCostPerDay |-> avg.avgCostPerDay,
        dailyActivity |-> parsed.dailyActivity,
        dailyCosts |-> buildDailyCosts(parsed.dailyModelTokens),
        dailyTokens |-> buildDailyTokens(parsed.dailyModelTokens),
        modelBreakdown |-> buildModelBreakdown(parsed.modelUsage, costResult.byModel),
        tokenComposition |-> buildTokenComposition(parsed.modelUsage),
        hourCounts |-> parsed.hourCounts,
        longestSession |-> parsed.longestSession,
        firstSessionDate |-> parsed.firstSessionDate,
        filtered |-> FALSE]))))

\* the longest of the sessions with a truthy duration, after `longest`
RECURSIVE LongestSession(_, _)
LongestSession(longest, sessions) ==
    IF sessions = <<>> THEN longest
    ELSE LET s == Head(sessions)
         IN Bind(IF /\ ~Falsy(s.duration)
                    /\ (longest = NullObj \/ s.duration > longest.duration)
                 THEN [sessionId |-> s.sessionId, duration |-> s.duration,
                       messageCount |-> s.messages]
                 ELSE longest,
                 LAMBDA next : LongestSession(next, Tail(sessions)))

buildFromSessions(st, sessions) ==
    Bind(AggregateUsage(<<>>, sessions), LAMBDA modelUsage :
    Bind(DailyValues(BuildDailyMap(<<>>, sessions)), LAMBDA dailyActivity :
    Bind([i \in 1..Len(dailyActivity) |->
             [date |-> dailyActivity[i].date,
              tokensByModel |-> dailyActivity[i].tokensByModel]], LAMBDA dailyModelTokens :
    Bind(calculateTotalCost(modelUsage), LAMBDA costResult :
    Bind(Len(dailyActivity), LAMBDA activeDays :
    Bind(SumMessages(sessions), LAMBDA totalMessages :
    Bind(Averages(totalMessages, Len(sessions), costResult.totalCost, activeDays),
         LAMBDA avg :
       [totalCost |-> costResult.totalCost,
        totalSessions |-> Len(sessions),
        totalMessages |-> totalMessages,
        totalToolCalls |-> 0,
        dateRange |-> IF dailyActivity = <<>> THEN NoRange
                      ELSE [start |-> dailyActivity[1].date,
                            end |-> dailyActivity[Len(dailyActivity)].date,
                            days |-> dailyActivity[Len(dailyActivity)].date
                                         - dailyActivity[1].date + 1],
        activeDays |-> activeDays,
        avgMessagesPerDay |-> avg.avgMessagesPerDay,
        avgSessionsPerDay |-> avg.avgSessionsPerDay,
        avgCostPerDay |-> avg.avgCostPerDay,
        dailyActivity |-> dailyActivity,
        dailyCosts |-> buildDailyCosts(dailyModelTokens),
        dailyTokens |-> buildDailyTokens(dailyModelTokens),
        modelBreakdown |-> buildModelBreakdown(modelUsage, costResult.byModel),
        tokenComposition |-> buildTokenComposition(modelUsage),
        hourCounts |-> <<>>,
        longestSession |-> LongestSession(NullObj, sessions),
        firstSessionDate |-> IF dailyActivity = <<>> THEN Null ELSE dailyActivity[1].date,
        filtered |-> TRUE])))))))

\* a merge that adds the supplement's tokens to a row but not their cost
MergeRowTokensOnly(existing, tokens, costInfo) ==
    [existing EXCEPT
        !.inputTokens = JsAdd(@, Or0(tokens.inputTokens)),
        !.outputTokens = JsAdd(@, Or0(tokens.outputTokens)),
        !.cacheReadInputTokens = JsAdd(@, Or0(tokens.cacheReadInputTokens)),
        !.cacheCreationInputTokens = JsAdd(@, Or0(tokens.cacheCreationInputTokens))]

\* existing.x += ... for every field of a breakdown row that is already there
MergeRow(existing, tokens, costInfo) ==
    [existing EXCEPT
        !.totalCost = JsAdd(@, Or0(costInfo.totalCost)),
        !.inputTokens = JsAdd(@, Or0(tokens.inputTokens)),
        !.outputTokens = JsAdd(@, Or0(tokens.outputTokens)),
        !.cacheReadInputTokens = JsAdd(@, Or0(tokens.cacheReadInputTokens)),
        !.cacheCreationInputTokens = JsAdd(@, Or0(tokens.cacheCreationInputTokens)),
        !.costBreakdown = [input |-> JsAdd(@.input, Or0(costInfo.inputCost)),
                           output |-> JsAdd(@.output, Or0(costInfo.outputCost)),
                           cacheRead |-> JsAdd(@.cacheRead, Or0(costInfo.cacheReadCost)),
                           cacheWrite |-> JsAdd(@.cacheWrite, Or0(costInfo.cacheWriteCost))]]

\* base.modelBreakdown.find(m => m.modelId === model): its index, 0 if none
FindRow(rows, model) ==
    IF \E i \in 1..Len(rows) : rows[i].modelId = model
    THEN CHOOSE i \in 1..Len(rows) :
             rows[i].modelId = model /\ \A j \in 1..(i - 1) : rows[j].modelId # model
    ELSE 0

\* merge the recent models into the breakdown: add into the row, or push one
RECURSIVE MergeBreakdown(_, _, _)
MergeBreakdown(rows, recentModelUsage, byModel) ==
    IF recentModelUsage = <<>> THEN rows
    ELSE LET model == Head(recentModelUsage).k
             tokens == Head(recentModelUsage).v
             costInfo == GetKey(byModel, model)
             at == FindRow(rows, model)
         IN Bind(IF at # 0 THEN [rows EXCEPT ![at] = MergeRow(rows[at], tokens, costInfo)]
                 ELSE Append(rows, BreakdownRow(model, tokens, costInfo)),
                 LAMBDA merged : MergeBreakdown(merged, Tail(recentModelUsage), byModel))

\* mergedModelUsage[model].x += tokens.x: no default for a counter the
\* cache's entry lacks
RECURSIVE MergeUsage(_, _)
MergeUsage(merged, recentModelUsage) ==
    IF recentModelUsage = <<>> THEN merged
    ELSE LET model == Head(recentModelUsage).k
             tokens == Head(recentModelUsage).v
             cur == IF HasKey(merged, model) THEN GetKey(merged, model) ELSE ZeroUsage
         IN Bind(SetKey(merged, model,
                        [inputTokens |-> JsAdd(cur.inputTokens, tokens.inputTokens),
                         outputTokens |-> JsAdd(cur.outputTokens, tokens.outputTokens),
                         cacheReadInputTokens |->
                             JsAdd(cur.cacheReadInputTokens, tokens.cacheReadInputTokens),
                         cacheCreationInputTokens |->
                             JsAdd(cur.cacheCreationInputTokens,
                                   tokens.cacheCreationInputTokens)]),
                 LAMBDA next : MergeUsage(next, Tail(recentModelUsage)))

\* hourCounts[hour] = (hourCounts[hour] || 0) + (s.messages || 1), for the
\* sessions that carry createdAt (here the hour it falls in)
RECURSIVE SupplementHours(_, _)
SupplementHours(hourCounts, sessions) ==
    IF sessions = <<>> THEN hourCounts
    ELSE LET s == Head(sessions)
             cur == IF HasKey(hourCounts, s.createdAt)
                    THEN Or0(GetKey(hourCounts, s.createdAt)) ELSE 0
         IN Bind(IF s.createdAt = Null THEN hourCounts
                 ELSE SetKey(hourCounts, s.createdAt,
                             cur + (IF Falsy(s.messages) THEN 1 ELSE s.messages)),
                 LAMBDA next : SupplementHours(next, Tail(sessions)))

\* what is appended to the cache's daily activity
RecentDaily(recentSessions) == DailyValues(BuildDailyMap(<<>>, recentSessions))

supplementWithRecentSessions(base, st, recentSessions) ==
    Bind(parseStatsCache(st), LAMBDA parsed :
    Bind(AggregateUsage(<<>>, recentSessions), LAMBDA recentModelUsage :
    Bind(calculateTotalCost(recentModelUsage), LAMBDA recentCost :
    Bind(RecentDaily(recentSessions), LAMBDA recentDaily :
    Bind([i \in 1..Len(recentDaily) |->
             [date |-> recentDaily[i].date, tokensByModel |-> recentDaily[i].tokensByModel]],
         LAMBDA recentDailyModelTokens :
    Bind(JsAdd(base.totalCost, recentCost.totalCost), LAMBDA totalCost :
    Bind(base.totalMessages + SumMessages(recentSessions), LAMBDA totalMessages :
    Bind(base.totalSessions + Len(recentSessions), LAMBDA totalSessions :
    Bind(base.dailyActivity \o recentDaily, LAMBDA dailyActivity :
    Bind(Len(dailyActivity), LAMBDA activeDays :
    Bind(Averages(totalMessages, totalSessions, totalCost, activeDays), LAMBDA avg :
       [base EXCEPT
           !.totalCost = totalCost,
           !.totalMessages = totalMessages,
           !.totalSessions = totalSessions,
           !.dailyActivity = dailyActivity,
           !.dailyCosts = @ \o buildDailyCosts(recentDailyModelTokens),
           !.dailyTokens = @ \o buildDailyTokens(recentDailyModelTokens),
           !.modelBreakdown =
               SortByCost(MergeBreakdown(@, recentModelUsage, recentCost.byModel)),
           !.tokenComposition =
               buildTokenComposition(MergeUsage(parsed.modelUsage, recentModelUsage)),
           !.dateRange = IF dailyActivity = <<>> THEN @ ELSE RangeOf(dailyActivity),
           !.hourCounts = SupplementHours(@, recentSessions),
           !.activeDays = activeDays,
           !.avgMessagesPerDay = avg.avgMessagesPerDay,
           !.avgSessionsPerDay = avg.avgSessionsPerDay,
           !.avgCostPerDay = avg.avgCostPerDay,
           !.longestSession = LongestSession(@, recentSessions)])))))))))))

NoStats ==
    [error |-> "No stats-cache.json found. Run Claude Code to generate usage data.",
     empty |-> TRUE]

\* the supplementation path is taken
Supplements(st, filters, sessions) ==
    /\ st # NullObj
    /\ filters = NullObj
    /\ sessions # NullArr
    /\ Len(sessions) > 0

\* a dispatcher that supplements the cache with the filtered sessions
\* instead of recomputing from them
buildOverviewReusingCache(st, filters, sessions) ==
    IF st = NullObj THEN NoStats
    ELSE IF sessions # NullArr /\ Len(sessions) > 0
         THEN Bind(buildFromStats(st),
                   LAMBDA base : supplementWithRecentSessions(base, st, sessions))
    ELSE buildFromStats(st)

\* a dispatch that looks at the filters before it looks at the cache
buildOverviewFiltersFirst(st, filters, sessions) ==
    IF filters # NullObj /\ sessions # NullArr THEN buildFromSessions(st, sessions)
    ELSE IF st = NullObj THEN NoStats
    ELSE IF Supplements(st, filters, sessions)
         THEN Bind(buildFromStats(st),
                   LAMBDA base : supplementWithRecentSessions(base, st, sessions))
    ELSE buildFromStats(st)

buildOverview(st, filters, sessions) ==
    IF st = NullObj THEN NoStats
    ELSE IF filters # NullObj /\ sessions # NullArr THEN buildFromSessions(st, sessions)
    ELSE IF Supplements(st, filters, sessions)
         THEN Bind(buildFromStats(st),
                   LAMBDA base : supplementWithRecentSessions(base, st, sessions))
    ELSE buildFromStats(st)

\* The cache object after the call.  The merged usage is a shallow copy
\* ({ ...parsed.modelUsage }), so the += lands in the cache's own per-model
\* objects; base.hourCounts is the cache's own hourCounts object.
StatsAfter(st, filters, sessions) ==
    IF ~Supplements(st, filters, sessions) THEN st
    ELSE Bind(MergeUsage(OrEmpty(st.modelUsage), AggregateUsage(<<>>, sessions)),
              LAMBDA merged :
                  [st EXCEPT
                      !.modelUsage =
                          IF @ = NullArr THEN @
                          ELSE [i \in 1..Len(@) |->
                                   [k |-> @[i].k, v |-> GetKey(merged, @[i].k)]],
                      !.hourCounts =
                          IF @ = NullArr THEN @ ELSE SupplementHours(@, sessions)])

(***************************************************************************)
(* Calls of buildOverview                                                  *)
(***************************************************************************)
\* the longest session list handed to buildOverview
MaxSessions == 2

\* the cache's lastComputedDate, as a day number
LastComputed == 2

Usage(i, o, r, w) ==
    [inputTokens |-> i, outputTokens |-> o,
     cacheReadInputTokens |-> r, cacheCreationInputTokens |-> w]

\* a cache as the producer writes it
CacheFull ==
    [lastComputedDate |-> LastComputed,
     dailyActivity |->
         << [date |-> 1, messageCount |-> 2, sessionCount |-> 1, toolCallCount |-> 1],
            [date |-> 2, messageCount |-> 1, sessionCount |-> 1, toolCallCount |-> 0] >>,
     dailyModelTokens |->
         << [date |-> 1, tokensByModel |-> << [k |-> KeyOpus46, v |-> 2] >>] >>,
     modelUsage |-> << [k |-> KeyOpus46, v |-> Usage(1, 2, 1, 0)],
                       [k |-> KeySonnet45, v |-> Usage(2, 0, 0, 1)] >>,
     totalSessions |-> 2,
     totalMessages |-> 3,
     longestSession |-> [sessionId |-> "c1", duration |-> 4, messageCount |-> 2],
     firstSessionDate |-> 1,
     hourCounts |-> << [k |-> 10, v |-> 2] >>]

\* a cache with properties missing: every read of it has a default
CacheSparse ==
    [lastComputedDate |-> LastComputed,
     dailyActivity |-> NullArr,
     dailyModelTokens |-> NullArr,
     modelUsage |-> << [k |-> IdTestModel, v |-> Usage(1, 1, Undefined, Undefined)] >>,
     totalSessions |-> Undefined,
     totalMessages |-> 1,
     longestSession |-> NullObj,
     firstSessionDate |-> Null,
     hourCounts |-> NullArr]

\* a cache of an installation that has not been used yet
CacheEmpty ==
    [lastComputedDate |-> Null,
     dailyActivity |-> <<>>,
     dailyModelTokens |-> <<>>,
     modelUsage |-> <<>>,
     totalSessions |-> 0,
     totalMessages |-> 0,
     longestSession |-> NullObj,
     firstSessionDate |-> Null,
     hourCounts |-> <<>>]

Caches == {CacheFull, CacheSparse, CacheEmpty}

Session(id, date, messages, duration, tokensByModel) ==
    [sessionId |-> id, date |-> date, messages |-> messages, duration |-> duration,
     tokensByModel |-> tokensByModel, createdAt |-> Null]

\* session summaries as buildAllSessions makes them: dated on or before
\* LastComputed, after it, or without a date
SessionPool ==
    { Session("a", 1, 2, 5, << [k |-> KeyOpus46, v |-> Usage(1, 0, 2, 0)] >>),
      Session("b", 2, 1, 0, << [k |-> IdTestModel, v |-> Usage(0, 1, 1, 0)] >>),
      Session("c", 3, 1, 9, << [k |-> KeyOpus46, v |-> Usage(0, 1, 0, 1)] >>),
      Session("d", 3, 0, 0, << [k |-> IdHaiku9, v |-> Usage(1, 1, 0, 0)],
                               [k |-> IdTestModel, v |-> Usage(1, 0, 0, 2)] >>),
      Session("e", Null, 1, 0, <<>>),
      Session("f", Null, 2, 3, << [k |-> KeySonnet45, v |-> Usage(0, 0, 1, 1)] >>) }

SessionLists(n) == [1..n -> SessionPool]

\* { from?, to?, project? } with at least one key, or null
FilterValues == {NullObj, [from |-> 1, to |-> Undefined, project |-> NullStr]}

NoCall == [by |-> "none"]

OverviewIdle ==
    /\ stats = NullObj
    /\ altStats = NullObj
    /\ call = NoCall
    /\ overview = NullObj
    /\ altOverview = NullObj
    /\ calls = 0
    /\ overviewAgain = NullObj

\* readStatsCache: the cache file is parsed into a fresh object (null if
\* there is no file)
ReadStatsCache ==
    /\ stats' \in Caches \cup {NullObj}
    /\ altStats' = NullObj
    /\ call' = NoCall
    /\ overview' = NullObj
    /\ altOverview' = NullObj
    /\ calls' = 0
    /\ overviewAgain' = NullObj
    /\ UNCHANGED <<priceVars, indexVars, tokenVars, otherVars, serverVars, parserVars, probeVars, expensiveVars>>

\* buildOverview(stats, filters, sessions) on the cache object in hand, and
\* beside it the same call on another cache
BuildOverview ==
    /\ calls = 0
    /\ \E filters \in FilterValues, n \in 0..MaxSessions, given \in BOOLEAN, alt \in Caches :
         \E list \in SessionLists(n) :
           LET sessions == IF given THEN list ELSE NullArr
           IN /\ given \/ n = 0
              /\ calls' = 1
              /\ call' = [by |-> "buildOverview", stats |-> stats, alt |-> alt,
                          filters |-> filters, sessions |-> sessions]
              /\ overview' = buildOverview(stats, filters, sessions)
              /\ altOverview' = buildOverview(alt, filters, sessions)
              /\ stats' = StatsAfter(stats, filters, sessions)
              /\ altStats' = StatsAfter(alt, filters, sessions)
              /\ overviewAgain' = NullObj
    /\ UNCHANGED <<priceVars, indexVars, tokenVars, otherVars, serverVars, parserVars, probeVars, expensiveVars>>

\* buildOverview is called once more with the same cache object, filters and
\* sessions
BuildOverviewAgain ==
    /\ calls = 1
    /\ call.by = "buildOverview"
    /\ calls' = 2
    /\ overviewAgain' = buildOverview(stats, call.filters, call.sessions)
    /\ stats' = StatsAfter(stats, call.filters, call.sessions)
    /\ UNCHANGED <<altStats, call, overview, altOverview>>
    /\ UNCHANGED <<priceVars, indexVars, tokenVars, otherVars, serverVars, parserVars, probeVars, expensiveVars>>

\* getSessions() returns the sessions newest first, the undated ones last
NewestFirst(sessions) ==
    \A i \in 1..(Len(sessions) - 1) :
        \/ sessions[i + 1].date = Null
        \/ sessions[i].date # Null /\ sessions[i].date >= sessions[i + 1].date

\* allSessions.filter(s => s.date && s.date > stats.lastComputedDate)
RECURSIVE RecentSessions(_, _)
RecentSessions(allSessions, lastComputedDate) ==
    IF allSessions = <<>> THEN <<>>
    ELSE (IF Head(allSessions).date # Null /\ Head(allSessions).date > lastComputedDate
          THEN <<Head(allSessions)>> ELSE <<>>)
         \o RecentSessions(Tail(allSessions), lastComputedDate)

\* the sessions argument printSummary passes on
SummarySessions(st, today, allSessions) ==
    IF st # NullObj /\ st.lastComputedDate # Null /\ st.lastComputedDate < today
       /\ RecentSessions(allSessions, st.lastComputedDate) # <<>>
    THEN RecentSessions(allSessions, st.lastComputedDate)
    ELSE NullArr

\* printSummary: read the cache, supplement it if it is older than today
PrintSummary ==
    /\ call = NoCall
    /\ UNCHANGED <<priceVars, indexVars, tokenVars, otherVars, serverVars, parserVars, probeVars, expensiveVars>>
    /\ \E st \in Caches \cup {NullObj}, today \in {LastComputed, LastComputed + 2},
          n \in 0..MaxSessions :
       \E allSessions \in SessionLists(n) :
        /\ NewestFirst(allSessions)
        /\ calls' = 1
        /\ call' = [by |-> "printSummary", stats |-> st, alt |-> st, filters |-> NullObj,
                    sessions |-> SummarySessions(st, today, allSessions)]
        /\ overview' = buildOverview(st, NullObj, SummarySessions(st, today, allSessions))
        /\ altOverview' = overview'
        /\ stats' = StatsAfter(st, NullObj, SummarySessions(st, today, allSessions))
        /\ altStats' = stats'
        /\ overviewAgain' = NullObj

(***************************************************************************)
(* reader.js: the session indexer                                          *)
(***************************************************************************)
\* the most project directories, and the most entries of one index file
MaxDirs == 2
MaxEntries == 2

SessionIds == {"s1", "s2"}

\* probeSessionFile: null if the read throws, else the metadata found; the
\* session id is the first one a line carries, else the file's base name
probeSessionFile(dirName, file) ==
    IF ~file.readable THEN NullObj
    ELSE [sessionId |-> IF file.sessionId # "" THEN file.sessionId ELSE file.basename,
          fullPath |-> <<dirName, file.basename>>,
          probed |-> TRUE]

\* for (const entry of index.entries): every entry is pushed
RECURSIVE AddIndexEntries(_, _, _)
AddIndexEntries(acc, dir, entries) ==
    IF entries = <<>> THEN acc
    ELSE Bind([seen |-> acc.seen \cup {Head(entries)},
               indexes |-> Append(acc.indexes,
                                  [sessionId |-> Head(entries), projectDir |-> dir.name,
                                   probed |-> FALSE])],
              LAMBDA next : AddIndexEntries(next, dir, Tail(entries)))

\* for (const file of sessionFiles): skip a base name already seen, else
\* probe the file and push what the probe returns
RECURSIVE AddSessionFiles(_, _, _)
AddSessionFiles(acc, dir, files) ==
    IF files = <<>> THEN acc
    ELSE LET file == Head(files)
             probedFile == probeSessionFile(dir.name, file)
         IN Bind(IF file.basename \in acc.seen THEN acc
                 ELSE [seen |-> acc.seen \cup {file.basename},
                       indexes |-> IF probedFile = NullObj THEN acc.indexes
                                   ELSE Append(acc.indexes,
                                               [sessionId |-> probedFile.sessionId,
                                                projectDir |-> dir.name,
                                                probed |-> TRUE])],
                 LAMBDA next : AddSessionFiles(next, dir, Tail(files)))

RECURSIVE ScanDirs(_, _)
ScanDirs(acc, dirs) ==
    IF dirs = <<>> THEN acc
    ELSE LET dir == Head(dirs)
             withIndex == IF ~dir.index.found THEN acc
                          ELSE AddIndexEntries(acc, dir, dir.index.entries)
         IN Bind(AddSessionFiles(withIndex, dir, dir.files),
                 LAMBDA next : ScanDirs(next, Tail(dirs)))

getAllSessionIndexes(projectDirs) == ScanDirs([seen |-> {}, indexes |-> <<>>], projectDirs).indexes

\* what a log file may hold: no session id, its own, or another session's;
\* or the file cannot be read
FilesNamed(basename) ==
    {[basename |-> basename, sessionId |-> sid, readable |-> TRUE] :
         sid \in SessionIds \cup {""}}
        \cup {[basename |-> basename, sessionId |-> "", readable |-> FALSE]}

\* the log files of a directory: distinct base names
FileLists ==
    {<<>>} \cup {<<f>> : f \in FilesNamed("s1") \cup FilesNamed("s2")}
        \cup {<<f, g>> : f \in FilesNamed("s1"), g \in FilesNamed("s2")}

\* sessions-index.json: absent, or its entries' session ids, each once
IndexFiles(maxEntries) ==
    {[found |-> FALSE, entries |-> <<>>]}
        \cup {[found |-> TRUE, entries |-> e] :
                  e \in UNION {{f \in [1..n -> SessionIds] :
                                   \A i, j \in 1..n : i # j => f[i] # f[j]} :
                               n \in 0..maxEntries}}

DirNames == <<"p1", "p2", "p3", "p4">>

\* the projects directory: its directories in readdir order
ProjectTree(dirs) ==
    [i \in DOMAIN dirs |->
        [name |-> DirNames[i], index |-> dirs[i].index, files |-> dirs[i].files]]

IndexIdle ==
    /\ projects = <<>>
    /\ indexes = <<>>
    /\ indexed = FALSE

GetAllSessionIndexes ==
    /\ ~indexed
    /\ \E n \in 0..MaxDirs :
       \E dirs \in [1..n -> [index : IndexFiles(MaxEntries), files : FileLists]] :
        /\ projects' = ProjectTree(dirs)
        /\ indexes' = getAllSessionIndexes(ProjectTree(dirs))
        /\ indexed' = TRUE
    /\ UNCHANGED <<priceVars, overviewVars, tokenVars, otherVars, serverVars, parserVars, probeVars, expensiveVars>>

(***************************************************************************)
(* session-parser.js: token aggregation                                    *)
(***************************************************************************)
\* the most assistant messages of the sessions together
MaxEvents == 3

\* an aggregation that keeps a model's latest usage instead of adding it
aggregateLatestUsage(session) ==
    LET RECURSIVE Latest(_, _)
        Latest(totals, msgs) ==
            IF msgs = <<>> THEN totals
            ELSE Bind(IF Head(msgs).usage = NullObj \/ Head(msgs).model = NullStr THEN totals
                      ELSE SetKey(totals, Head(msgs).model, Head(msgs).usage),
                      LAMBDA next : Latest(next, Tail(msgs)))
    IN Latest(<<>>, session.assistantMessages)

aggregateSessionTokens(session) ==
    LET RECURSIVE Totals(_, _)
        Totals(totals, msgs) ==
            IF msgs = <<>> THEN totals
            ELSE LET msg == Head(msgs)
                     cur == IF HasKey(totals, msg.model) THEN GetKey(totals, msg.model)
                            ELSE ZeroUsage
                 IN Bind(
                        IF msg.usage = NullObj \/ msg.model = NullStr THEN totals
                        ELSE SetKey(totals, msg.model,
                                    [inputTokens |-> cur.inputTokens + msg.usage.inputTokens,
                                     outputTokens |-> cur.outputTokens + msg.usage.outputTokens,
                                     cacheReadInputTokens |->
                                         cur.cacheReadInputTokens
                                             + msg.usage.cacheReadInputTokens,
                                     cacheCreationInputTokens |->
                                         cur.cacheCreationInputTokens
                                             + msg.usage.cacheCreationInputTokens]),
                        LAMBDA next : Totals(next, Tail(msgs)))
    IN Totals(<<>>, session.assistantMessages)

\* assistant messages as parseSessionFile keeps them: the model or the usage
\* may be missing
AssistantMessages ==
    { [model |-> KeyOpus46, usage |-> Usage(1, 0, 2, 1)],
      [model |-> IdHaiku9, usage |-> Usage(0, 2, 1, 0)],
      [model |-> NullStr, usage |-> Usage(1, 1, 1, 1)],
      [model |-> KeyOpus46, usage |-> NullObj] }

\* the sessions a log of events is cut into: session i ends after event
\* cuts[i]
ParsedSessions(events, cuts) ==
    [i \in DOMAIN cuts |->
        [assistantMessages |->
            SubSeq(events, (IF i = 1 THEN 0 ELSE cuts[i - 1]) + 1, cuts[i])]]

\* the ways to cut k events into n sessions, empty ones included
Cuts(n, k) ==
    {cuts \in [1..n -> 0..k] :
        /\ \A i \in 1..(n - 1) : cuts[i] <= cuts[i + 1]
        /\ n > 0 => cuts[n] = k}

\* buildAllSessions: tokensByModel = aggregateSessionTokens(session), per session
TokensBySession(sessions) ==
    [i \in 1..Len(sessions) |-> [tokensByModel |-> aggregateSessionTokens(sessions[i])]]

TokenIdle ==
    /\ parsedSessions = <<>>
    /\ perSession = <<>>
    /\ summed = <<>>

\* the sessions are parsed and aggregated one by one (buildAllSessions), and
\* the per-session results summed per model (buildFromSessions)
AggregateBySession ==
    /\ parsedSessions = <<>>
    /\ \E n \in 0..MaxSessions, k \in 0..MaxEvents :
       \E events \in [1..k -> AssistantMessages], cuts \in Cuts(n, k) :
        /\ n = 0 => k = 0
        /\ parsedSessions' = ParsedSessions(events, cuts)
        /\ perSession' = TokensBySession(ParsedSessions(events, cuts))
        /\ summed' = AggregateUsage(<<>>, TokensBySession(ParsedSessions(events, cuts)))
    /\ UNCHANGED <<priceVars, overviewVars, indexVars, otherVars, serverVars, parserVars, probeVars, expensiveVars>>

(***************************************************************************)
(* Turn pairing (src/data/session-parser.js)                               *)
(***************************************************************************)
\* the most messages of a session
MaxMessages == 6

\* a collection that stops after one assistant message
FirstResponse(msgs, j) ==
    IF j <= Len(msgs) /\ msgs[j].type = "assistant" THEN <<msgs[j]>> ELSE <<>>

\* while (j < msgs.length && msgs[j].type === 'assistant') responses.push(msgs[j])
RECURSIVE Responses(_, _)
Responses(msgs, j) ==
    IF j <= Len(msgs) /\ msgs[j].type = "assistant"
    THEN <<msgs[j]>> \o Responses(msgs, j + 1)
    ELSE <<>>

\* the for loop of pairMessages from position i on
RECURSIVE PairFrom(_, _, _)
PairFrom(msgs, i, acc) ==
    IF i > Len(msgs) THEN acc
    ELSE IF msgs[i].type = "user"
         THEN Bind(Responses(msgs, i + 1), LAMBDA responses :
                  IF Len(responses) > 0
                  THEN PairFrom(msgs, i + 1,
                                Append(acc, [prompt |-> msgs[i],
                                             responses |-> responses,
                                             turnIndex |-> Len(acc)]))
                  ELSE PairFrom(msgs, i + 1, acc))
         ELSE PairFrom(msgs, i + 1, acc)

pairMessages(session) == PairFrom(session.messages, 1, <<>>)

\* the types of the messages parseSessionFile keeps
MessageTypes == {"user", "assistant"}

\* a message; its timestamp stands for its content
Message(type, at) == [type |-> type, timestamp |-> at]

TurnIdle ==
    /\ turnSession = NullObj
    /\ pairs = <<>>

PairMessages ==
    /\ turnSession = NullObj
    /\ \E n \in 0..MaxMessages :
           \E types \in [1..n -> MessageTypes] :
               LET session == [messages |-> [i \in 1..n |-> Message(types[i], i)]]
               IN /\ turnSession' = session
                  /\ pairs' = pairMessages(session)
    /\ UNCHANGED <<priceVars, overviewVars, indexVars, tokenVars, securityVars, filterVars, serverVars, parserVars, probeVars, expensiveVars>>

(***************************************************************************)
(* Security analysis (src/analysis/security.js)                            *)
(***************************************************************************)
\* the most sessions given to detectAnomalies
MaxStats == 4
\* the counts of one metric of one session: none, one, and three, which is
\* 3 times an average of one and more than 3 times a smaller one
CountValues == {0, 1, 3}

\* const threshold = 3
threshold == 3

\* a total that leaves no session out
WithOwn(total, own) == total

\* totalX - sess.x: the total of the other sessions
LeaveOneOut(total, own) == total - own

\* a flag text: the session's count and the average to one decimal
Flag(metric, count, othersTotal, othersCount) ==
    [metric |-> metric, count |-> count, avg |-> Fixed1(othersTotal, othersCount, 1)]

\* a test that also flags a count equal to 3 times the average
ReachesAverage(count, othersTotal, othersCount) ==
    /\ othersTotal > 0
    /\ count * othersCount >= othersTotal * threshold

\* avgX > 0 && sess.x > avgX * threshold, avgX = othersTotal / othersCount
ExceedsAverage(count, othersTotal, othersCount) ==
    /\ othersTotal > 0
    /\ count * othersCount > othersTotal * threshold

\* the flags of one session
FlagsOf(sess, totalDestructive, totalWrites, othersCount) ==
    Bind(LeaveOneOut(totalDestructive, sess.destructiveCount), LAMBDA othersDestructive :
    Bind(LeaveOneOut(totalWrites, sess.writeCount), LAMBDA othersWrites :
        (IF ExceedsAverage(sess.destructiveCount, othersDestructive, othersCount)
         THEN <<Flag("destructive commands", sess.destructiveCount,
                     othersDestructive, othersCount)>>
         ELSE <<>>)
        \o (IF ExceedsAverage(sess.writeCount, othersWrites, othersCount)
            THEN <<Flag("write operations", sess.writeCount, othersWrites, othersCount)>>
            ELSE <<>>)))

RECURSIVE AnomaliesFrom(_, _, _, _, _)
AnomaliesFrom(sessionStats, i, totalDestructive, totalWrites, anomalies) ==
    IF i > Len(sessionStats) THEN anomalies
    ELSE Bind(FlagsOf(sessionStats[i], totalDestructive, totalWrites,
                      Len(sessionStats) - 1), LAMBDA flags :
             AnomaliesFrom(sessionStats, i + 1, totalDestructive, totalWrites,
                           IF Len(flags) > 0
                           THEN Append(anomalies,
                                       [sessionId |-> sessionStats[i].sessionId,
                                        projectPath |-> sessionStats[i].projectPath,
                                        date |-> sessionStats[i].date,
                                        flags |-> flags])
                           ELSE anomalies))

detectAnomalies(sessionStats) ==
    IF Len(sessionStats) < 3 THEN <<>>
    ELSE AnomaliesFrom(sessionStats, 1,
                       SumSeq([i \in 1..Len(sessionStats) |-> sessionStats[i].destructiveCount]),
                       SumSeq([i \in 1..Len(sessionStats) |-> sessionStats[i].writeCount]),
                       <<>>)

\* the statistics of one session, as getSecurityAudit records them; its
\* position stands for its id
SessionStat(i, destructiveCount, writeCount) ==
    [sessionId |-> i, projectPath |-> "/p", date |-> Null,
     destructiveCount |-> destructiveCount, writeCount |-> writeCount]

SecurityIdle ==
    /\ secOp = "none"
    /\ secArg = NullObj
    /\ secResult = NullObj
    /\ secAltArg = NullObj
    /\ secAltResult = NullObj

DetectAnomalies ==
    /\ secOp = "none"
    /\ \E n \in 0..MaxStats :
           \E destructive \in [1..n -> CountValues], writes \in [1..n -> CountValues] :
               LET sessionStats == [i \in 1..n |-> SessionStat(i, destructive[i], writes[i])]
               IN /\ secArg' = [sessionStats |-> sessionStats]
                  /\ secResult' = [anomalies |-> detectAnomalies(sessionStats)]
    /\ secOp' = "detectAnomalies"
    /\ UNCHANGED <<secAltArg, secAltResult>>
    /\ UNCHANGED <<priceVars, overviewVars, indexVars, tokenVars, turnVars, filterVars, serverVars, parserVars, probeVars, expensiveVars>>

(***************************************************************************)
(* security.js: the classification of Bash commands                        *)
(***************************************************************************)
\* the most words of a command
MaxWords == 3

\* \w
WordChars ==
    {"a","b","c","d","e","f","g","h","i","j","k","l","m","n","o","p","q","r","s","t",
     "u","v","w","x","y","z","0","1","2","3","4","5","6","7","8","9","_",
     "A","B","C","D","E","F","G","H","I","J","K","L","M","N","O","P","Q","R","S","T",
     "U","V","W","X","Y","Z"}

\* \s
SpaceChars == {" ", "\t", "\n"}

\* s[pos] is a word character (no character outside the string is)
IsWordAt(s, pos) == pos >= 1 /\ pos <= Len(s) /\ s[pos] \in WordChars

\* \b before s[pos]
WordBoundary(s, pos) == IsWordAt(s, pos - 1) # IsWordAt(s, pos)

\* the positions after a match of atoms[k..] that starts at s[pos]; an atom
\* is a character, "WS" (\s) or "WS+" (\s+)
RECURSIVE MatchEnds(_, _, _, _)
MatchEnds(s, pos, atoms, k) ==
    IF k > Len(atoms) THEN {pos}
    ELSE IF pos > Len(s) THEN {}
    ELSE IF atoms[k] = "WS"
         THEN IF s[pos] \in SpaceChars THEN MatchEnds(s, pos + 1, atoms, k + 1) ELSE {}
    ELSE IF atoms[k] = "WS+"
         THEN IF s[pos] \in SpaceChars
              THEN MatchEnds(s, pos + 1, atoms, k + 1) \cup MatchEnds(s, pos + 1, atoms, k)
              ELSE {}
    ELSE IF s[pos] = atoms[k] THEN MatchEnds(s, pos + 1, atoms, k + 1) ELSE {}

\* pattern.test(s) for a pattern /\b(alternatives)/ or /\b(alternatives)\b/
test(pattern, s) ==
    \E pos \in 1..Len(s) :
        /\ WordBoundary(s, pos)
        /\ \E a \in 1..Len(pattern.alternatives) :
               \E e \in MatchEnds(s, pos, pattern.alternatives[a], 1) :
                   pattern.wordEnd => WordBoundary(s, e)

\* /\bsudo\s/
SudoPattern ==
    [alternatives |->
        << <<"s","u","d","o","WS">> >>,
     wordEnd |-> FALSE]

\* /\b(rm\s|rmdir|git\s+reset\s+--hard|git\s+clean|git\s+checkout\s+\.)/
DestructivePattern ==
    [alternatives |->
        << <<"r","m","WS">>,
        <<"r","m","d","i","r">>,
        <<"g","i","t","WS+","r","e","s","e","t","WS+","-","-","h","a","r","d">>,
        <<"g","i","t","WS+","c","l","e","a","n">>,
        <<"g","i","t","WS+","c","h","e","c","k","o","u","t","WS+",".">> >>,
     wordEnd |-> FALSE]

\* /\b(chmod|chown|chgrp)\b/
PermissionsPattern ==
    [alternatives |->
        << <<"c","h","m","o","d">>,
        <<"c","h","o","w","n">>,
        <<"c","h","g","r","p">> >>,
     wordEnd |-> TRUE]

\* /\b(curl|wget|ssh\s|scp\s|git\s+push|git\s+clone|git\s+fetch|git\s+pull)\b/
NetworkPattern ==
    [alternatives |->
        << <<"c","u","r","l">>,
        <<"w","g","e","t">>,
        <<"s","s","h","WS">>,
        <<"s","c","p","WS">>,
        <<"g","i","t","WS+","p","u","s","h">>,
        <<"g","i","t","WS+","c","l","o","n","e">>,
        <<"g","i","t","WS+","f","e","t","c","h">>,
        <<"g","i","t","WS+","p","u","l","l">> >>,
     wordEnd |-> TRUE]

\* /\b(npm\s+install|...|apt-get\s+install)\b/
PackageManagersPattern ==
    [alternatives |->
        << <<"n","p","m","WS+","i","n","s","t","a","l","l">>,
        <<"y","a","r","n","WS+","a","d","d">>,
        <<"p","i","p","WS+","i","n","s","t","a","l","l">>,
        <<"c","a","r","g","o","WS+","i","n","s","t","a","l","l">>,
        <<"b","r","e","w","WS+","i","n","s","t","a","l","l">>,
        <<"a","p","t","WS+","i","n","s","t","a","l","l">>,
        <<"a","p","t","-","g","e","t","WS+","i","n","s","t","a","l","l">> >>,
     wordEnd |-> TRUE]

\* the words the commands of the model are made of
CommandWords ==
    << <<"s","u","d","o">>,
       <<"r","m">>,
       <<"c","h","m","o","d">>,
       <<"c","u","r","l">>,
       <<"n","p","m">>,
       <<"i","n","s","t","a","l","l">>,
       <<"g","i","t">>,
       <<"p","u","s","h">>,
       <<"f","a","r","m">>,
       <<"l","s">> >>
\* a table that checks destructive before sudo
DestructiveFirst ==
    << [k |-> "destructive", v |-> DestructivePattern],
       [k |-> "sudo", v |-> SudoPattern],
       [k |-> "permissions", v |-> PermissionsPattern],
       [k |-> "network", v |-> NetworkPattern],
       [k |-> "packageManagers", v |-> PackageManagersPattern] >>

\* the table, in the order of its keys
BASH_CATEGORIES ==
    << [k |-> "sudo", v |-> SudoPattern],
       [k |-> "destructive", v |-> DestructivePattern],
       [k |-> "permissions", v |-> PermissionsPattern],
       [k |-> "network", v |-> NetworkPattern],
       [k |-> "packageManagers", v |-> PackageManagersPattern] >>

\* for (const [category, pattern] of Object.entries(BASH_CATEGORIES)) from i on
RECURSIVE FirstCategory(_, _, _)
FirstCategory(categories, command, i) ==
    IF i > Len(categories) THEN "safe"
    ELSE IF test(categories[i].v, command) THEN categories[i].k
    ELSE FirstCategory(categories, command, i + 1)

classifyBashCommand(command) ==
    IF command = NullStr \/ command = <<>> THEN "safe"
    ELSE FirstCategory(BASH_CATEGORIES, command, 1)

\* the words joined by one space
RECURSIVE JoinWords(_)
JoinWords(words) ==
    IF words = <<>> THEN <<>>
    ELSE IF Len(words) = 1 THEN words[1]
    ELSE words[1] \o <<" ">> \o JoinWords(Tail(words))

ClassifyBashCommand ==
    /\ secOp = "none"
    /\ \E n \in 0..MaxWords, absent \in BOOLEAN :
           \E choice \in [1..n -> 1..Len(CommandWords)] :
               /\ absent => n = 0
               /\ LET command == IF absent THEN NullStr
                                 ELSE JoinWords([i \in 1..n |-> CommandWords[choice[i]]])
                  IN /\ secArg' = [command |-> command]
                     /\ secResult' = [category |-> classifyBashCommand(command)]
    /\ secOp' = "classifyBashCommand"
    /\ UNCHANGED <<secAltArg, secAltResult>>
    /\ UNCHANGED <<priceVars, overviewVars, indexVars, tokenVars, turnVars, filterVars, serverVars, parserVars, probeVars, expensiveVars>>

(***************************************************************************)
(* security.js: the risk of an MCP server configuration                   *)
(***************************************************************************)
\* the most env variables of a configuration
MaxEnv == 3

\* the lower-case letter of an upper-case one
LowerOf ==
    [A |-> "a", B |-> "b", C |-> "c", D |-> "d", E |-> "e", F |-> "f", G |-> "g",
     H |-> "h", I |-> "i", J |-> "j", K |-> "k", L |-> "l", M |-> "m", N |-> "n",
     O |-> "o", P |-> "p", Q |-> "q", R |-> "r", S |-> "s", T |-> "t", U |-> "u",
     V |-> "v", W |-> "w", X |-> "x", Y |-> "y", Z |-> "z"]

\* the string compared without regard to case (the i flag)
IgnoreCase(s) == [i \in 1..Len(s) |-> IF s[i] \in DOMAIN LowerOf THEN LowerOf[s[i]] ELSE s[i]]

\* /token/i, /key/i, /secret/i, /password/i, /credential/i
SENSITIVE_ENV_PATTERNS ==
    << <<"t","o","k","e","n">>,
       <<"k","e","y">>,
       <<"s","e","c","r","e","t">>,
       <<"p","a","s","s","w","o","r","d">>,
       <<"c","r","e","d","e","n","t","i","a","l">> >>

\* SENSITIVE_ENV_PATTERNS.some(p => p.test(envName))
IsSensitiveName(envName) ==
    \E p \in 1..Len(SENSITIVE_ENV_PATTERNS) :
        includes(IgnoreCase(envName), SENSITIVE_ENV_PATTERNS[p])

knownCommands ==
    { <<"n","p","x">>, <<"n","o","d","e">>, <<"p","y","t","h","o","n">>, <<"p","y","t","h","o","n","3">>, <<"u","v","x">>, <<"d","o","c","k","e","r">> }

\* the string without its trailing slashes
RECURSIVE StripSlashes(_)
StripSlashes(s) ==
    IF Len(s) > 1 /\ s[Len(s)] = "/" THEN StripSlashes(SubSeq(s, 1, Len(s) - 1)) ELSE s

\* path.basename(p): what follows the last slash
basename(p) ==
    Bind(StripSlashes(p), LAMBDA s :
        IF \E i \in 1..Len(s) : s[i] = "/"
        THEN Bind(CHOOSE i \in 1..Len(s) :
                      s[i] = "/" /\ \A j \in (i + 1)..Len(s) : s[j] # "/", LAMBDA last :
                 IF last = Len(s) THEN s ELSE SubSeq(s, last + 1, Len(s)))
        ELSE s)

\* '...' and '***'
Ellipsis == <<".", ".", ".">>
Redacted == <<"*", "*", "*">>

\* a preview that shows a short value as it is
PreviewShortInFull(envValue) ==
    IF envValue.type = "string" /\ Len(envValue.chars) > 4
    THEN SubSeq(envValue.chars, 1, 4) \o Ellipsis
    ELSE envValue.chars

\* typeof envValue === 'string' && envValue.length > 4
\*     ? envValue.slice(0, 4) + '...' : '***'
Preview(envValue) ==
    IF envValue.type = "string" /\ Len(envValue.chars) > 4
    THEN SubSeq(envValue.chars, 1, 4) \o Ellipsis
    ELSE Redacted

\* the loop over Object.entries(env) from i on
RECURSIVE ExposedFrom(_, _)
ExposedFrom(env, i) ==
    IF i > Len(env) THEN <<>>
    ELSE (IF IsSensitiveName(env[i].k)
          THEN <<[name |-> env[i].k, preview |-> Preview(env[i].v)]>>
          ELSE <<>>) \o ExposedFrom(env, i + 1)

\* a level that takes 3 exposed secrets for medium
RiskLevelAboveThree(exposed, unknownCommand) ==
    IF exposed > 3 \/ unknownCommand THEN "high"
    ELSE IF exposed > 0 THEN "medium"
    ELSE "low"

\* the riskLevel of a count of exposed secrets and a command
RiskLevel(exposed, unknownCommand) ==
    IF exposed >= 3 \/ unknownCommand THEN "high"
    ELSE IF exposed > 0 THEN "medium"
    ELSE "low"

assessMcpRisk(name, config) ==
    Bind(IF config.command = NullStr \/ config.command = <<>>
         THEN NullStr ELSE config.command, LAMBDA command :
    Bind(IF command # NullStr THEN basename(command) \notin knownCommands ELSE FALSE,
         LAMBDA unknownCommand :
    Bind(ExposedFrom(config.env, 1), LAMBDA exposedSecrets :
        [name |-> name,
         command |-> command,
         args |-> config.args,
         riskLevel |-> RiskLevel(Len(exposedSecrets), unknownCommand),
         exposedSecrets |-> exposedSecrets,
         unknownCommand |-> unknownCommand])))

\* env names: three with a sensitive keyword in some case, two without
EnvNames ==
    << <<"A","P","I","_","K","E","Y">>,
       <<"g","i","t","h","u","b","_","t","o","k","e","n">>,
       <<"D","b","P","a","s","s","w","o","r","d">>,
       <<"P","A","T","H">>,
       <<"H","O","M","E">> >>

NumberValue == [type |-> "number", chars |-> <<>>]

\* env values: strings of 4 and 5 characters, two of 5 that share their
\* first 4, and a number
EnvValues ==
    { [type |-> "string", chars |-> <<"a","b","c","d">>],
      [type |-> "string", chars |-> <<"a","b","c","d","e">>],
      [type |-> "string", chars |-> <<"a","b","c","d","x">>],
      NumberValue }

\* launch commands: none, an empty one, bare and absolute known ones, and
\* unknown ones
LaunchCommands ==
    { NullStr, <<>>, <<"n","p","x">>, <<"/","u","s","r","/","b","i","n","/","n","o","d","e">>,
      <<"/","o","p","t","/","t","o","o","l">>, <<"n","o","d","e","x">> }

\* the env object with the names of the positions in picked, in order
EnvOf(picked, value) ==
    [i \in 1..Len(picked) |-> [k |-> EnvNames[picked[i]], v |-> value[i]]]

\* the increasing sequences of n positions of EnvNames
Picks(n) ==
    {p \in [1..n -> 1..Len(EnvNames)] : \A i \in 1..(n - 1) : p[i] < p[i + 1]}

\* assessMcpRisk on a configuration and on a second one that differs from it
\* in the value of at most one variable
AssessMcpRisk ==
    /\ secOp = "none"
    /\ \E n \in 0..MaxEnv, command \in LaunchCommands :
           \E picked \in Picks(n), value \in [1..n -> EnvValues] :
               \E changed \in 0..n :
               \E other \in (IF changed = 0 THEN {NumberValue} ELSE EnvValues) :
                   LET config == [command |-> command, args |-> <<>>,
                                  env |-> EnvOf(picked, value)]
                       alt == [command |-> command, args |-> <<>>,
                               env |-> EnvOf(picked,
                                             [i \in 1..n |->
                                                 IF i = changed THEN other ELSE value[i]])]
                   IN /\ secArg' = [name |-> "server", config |-> config]
                      /\ secResult' = assessMcpRisk("server", config)
                      /\ secAltArg' = [name |-> "server", config |-> alt]
                      /\ secAltResult' = assessMcpRisk("server", alt)
    /\ secOp' = "assessMcpRisk"
    /\ UNCHANGED <<priceVars, overviewVars, indexVars, tokenVars, turnVars, filterVars, serverVars, parserVars, probeVars, expensiveVars>>

(***************************************************************************)
(* security.js: the audit of the session logs                              *)
(***************************************************************************)
\* the most session logs of the projects directory
MaxLogs == 2
\* the most tool calls of one session
MaxToolCalls == 2

\* parseSessionFile(file): the session of a log; of the log's lines it keeps
\* the id, the working directory, the branch, the timestamps and the messages
parseSessionFile(log) ==
    [sessionId |-> log.sessionId,
     projectPath |-> log.cwd,
     gitBranch |-> NullStr,
     firstTimestamp |-> Null,
     lastTimestamp |-> Null,
     duration |-> 0,
     messages |-> log.assistant,
     messageCount |-> Len(log.assistant),
     assistantMessages |-> log.assistant,
     userMessages |-> <<>>]

\* session.permissionMode: the property if the object has it, else undefined
\* (the empty string stands for undefined, both are falsy)
permissionModeOf(session) ==
    IF "permissionMode" \in DOMAIN session THEN session.permissionMode ELSE ""

dangerousModes == {"bypassPermissions", "fullAutoMode", "yolo"}

\* session.permissionMode && dangerousModes.has(session.permissionMode)
isDangerousSession(session) ==
    permissionModeOf(session) # "" /\ permissionModeOf(session) \in dangerousModes

\* the tool calls of a session, message by message
RECURSIVE ToolCallsOf(_)
ToolCallsOf(assistantMessages) ==
    IF assistantMessages = <<>> THEN <<>>
    ELSE Head(assistantMessages).toolCalls \o ToolCallsOf(Tail(assistantMessages))

\* the Bash commands among tool calls: input.command, when given
BashCommandsOf(toolCalls) ==
    SelectSeq(toolCalls, LAMBDA tool : tool.name \in {"Bash", "bash"} /\ tool.command # <<>>)

\* bashCommands[category].push(...) for the commands of a session
RECURSIVE PushCommands(_, _, _)
PushCommands(bashCommands, commands, sessionId) ==
    IF commands = <<>> THEN bashCommands
    ELSE Bind(classifyBashCommand(Head(commands).command), LAMBDA category :
             PushCommands([bashCommands EXCEPT
                               ![category] = Append(@, [command |-> Head(commands).command,
                                                        sessionId |-> sessionId,
                                                        date |-> Null])],
                          Tail(commands), sessionId))

\* sessFlaggedCommands of a dangerous session
RECURSIVE FlaggedCommands(_)
FlaggedCommands(commands) ==
    IF commands = <<>> THEN <<>>
    ELSE Bind(classifyBashCommand(Head(commands).command), LAMBDA category :
             (IF category # "safe"
              THEN <<[command |-> Head(commands).command, category |-> category,
                      date |-> Null]>>
              ELSE <<>>) \o FlaggedCommands(Tail(commands)))

\* sessDestructive and sessWrites
DestructiveCount(commands) ==
    Len(SelectSeq(commands, LAMBDA tool :
            classifyBashCommand(tool.command) \in {"destructive", "sudo"}))

WriteCount(toolCalls) ==
    Len(SelectSeq(toolCalls, LAMBDA tool :
            tool.name \in {"Write", "write", "Edit", "edit"} /\ tool.filePath # <<>>))

NoBashCommands ==
    [sudo |-> <<>>, destructive |-> <<>>, permissions |-> <<>>, network |-> <<>>,
     packageManagers |-> <<>>, safe |-> <<>>]

\* a Write or Edit whose file path is given but is no string: the count of
\* the path is entered, then trackDir throws in path.dirname
ThrowsInTrackDir(tool) ==
    /\ tool.name \in {"Write", "write", "Edit", "edit"}
    /\ tool.filePath # <<>>
    /\ tool.filePathType # "string"

\* the tool calls of a session that are handled before one throws
RECURSIVE HandledBeforeThrow(_)
HandledBeforeThrow(toolCalls) ==
    IF toolCalls = <<>> \/ ThrowsInTrackDir(Head(toolCalls)) THEN <<>>
    ELSE <<Head(toolCalls)>> \o HandledBeforeThrow(Tail(toolCalls))

\* fileAccessMap[fp].writes++ and .edits++ for the given tool calls
RECURSIVE CountAccess(_, _)
CountAccess(fileAccessMap, toolCalls) ==
    IF toolCalls = <<>> THEN fileAccessMap
    ELSE LET tool == Head(toolCalls)
             old == IF HasKey(fileAccessMap, tool.filePath)
                    THEN GetKey(fileAccessMap, tool.filePath)
                    ELSE [reads |-> 0, writes |-> 0, edits |-> 0]
         IN Bind(IF tool.name \in {"Write", "write"} /\ tool.filePath # <<>>
                 THEN SetKey(fileAccessMap, tool.filePath, [old EXCEPT !.writes = @ + 1])
                 ELSE IF tool.name \in {"Edit", "edit"} /\ tool.filePath # <<>>
                 THEN SetKey(fileAccessMap, tool.filePath, [old EXCEPT !.edits = @ + 1])
                 ELSE fileAccessMap,
                 LAMBDA next : CountAccess(next, Tail(toolCalls)))

\* the loop over the session files from the i-th on
RECURSIVE AuditFrom(_, _, _)
AuditFrom(logs, i, acc) ==
    IF i > Len(logs) THEN acc
    ELSE IF ~logs[i].readable THEN AuditFrom(logs, i + 1, acc)
    ELSE Bind(parseSessionFile(logs[i]), LAMBDA session :
         Bind(ToolCallsOf(session.assistantMessages), LAMBDA allCalls :
         Bind(HandledBeforeThrow(allCalls), LAMBDA toolCalls :
         Bind(BashCommandsOf(toolCalls), LAMBDA commands :
           IF Len(toolCalls) < Len(allCalls)
           THEN \* a tool call threw: what was entered before it stays, the
                \* session reaches neither dangerousSessions nor sessionStats
                AuditFrom(logs, i + 1,
                    [acc EXCEPT
                        !.bashCommands = PushCommands(@, commands, session.sessionId),
                        !.fileAccessMap =
                            CountAccess(@, Append(toolCalls, allCalls[Len(toolCalls) + 1]))])
           ELSE
             AuditFrom(logs, i + 1,
                 [bashCommands |->
                      PushCommands(acc.bashCommands, commands, session.sessionId),
                  fileAccessMap |-> CountAccess(acc.fileAccessMap, toolCalls),
                  dangerousSessions |->
                      IF isDangerousSession(session)
                      THEN SetKey(acc.dangerousSessions, session.sessionId,
                                  [mode |-> permissionModeOf(session),
                                   date |-> Null,
                                   projectPath |-> session.projectPath,
                                   sessionFile |-> logs[i].file,
                                   flaggedCommands |-> FlaggedCommands(commands)])
                      ELSE acc.dangerousSessions,
                  sessionStats |->
                      Append(acc.sessionStats,
                             [sessionId |-> session.sessionId,
                              projectPath |-> session.projectPath,
                              date |-> Null,
                              destructiveCount |-> DestructiveCount(commands),
                              writeCount |-> WriteCount(toolCalls)])])))))

\* the part of the audit that is computed from the sessions' tool calls and
\* permission modes
getSecurityAudit(logs) ==
    Bind(AuditFrom(logs, 1, [bashCommands |-> NoBashCommands,
                             fileAccessMap |-> <<>>,
                             dangerousSessions |-> <<>>,
                             sessionStats |-> <<>>]), LAMBDA acc :
    Bind(detectAnomalies(acc.sessionStats), LAMBDA anomalies :
        [summary |->
             [totalFilesAccessed |-> Len(acc.fileAccessMap),
              totalBashCommands |->
                  Len(acc.bashCommands.sudo) + Len(acc.bashCommands.destructive)
                      + Len(acc.bashCommands.permissions) + Len(acc.bashCommands.network)
                      + Len(acc.bashCommands.packageManagers) + Len(acc.bashCommands.safe),
              flaggedBashCommands |->
                  Len(acc.bashCommands.destructive) + Len(acc.bashCommands.permissions)
                      + Len(acc.bashCommands.network) + Len(acc.bashCommands.sudo),
              dangerousSessionCount |-> Len(acc.dangerousSessions),
              anomalyCount |-> Len(anomalies)],
         fileAccess |-> acc.fileAccessMap,
         bashCommands |-> acc.bashCommands,
         dangerousSessions |-> acc.dangerousSessions,
         anomalies |-> anomalies]))

\* the permission modes a log records: none, the default, the mode that
\* approves edits only, and the modes that ask for no confirmation
RecordedModes == {"", "default", "acceptEdits", "bypassPermissions", "fullAutoMode", "yolo"}

\* tool calls: a sudo, a destructive and a safe Bash command, a Write, and a
\* Write whose file_path is the number 7
ToolCalls ==
    { [name |-> "Bash", command |-> JoinWords(<<CommandWords[1], CommandWords[2]>>),
       filePath |-> <<>>, filePathType |-> "string"],
      [name |-> "Bash", command |-> JoinWords(<<CommandWords[2], CommandWords[10]>>),
       filePath |-> <<>>, filePathType |-> "string"],
      [name |-> "Bash", command |-> CommandWords[10], filePath |-> <<>>,
       filePathType |-> "string"],
      [name |-> "Write", command |-> <<>>, filePath |-> <<"/", "p", "/", "f">>,
       filePathType |-> "string"],
      [name |-> "Write", command |-> <<>>, filePath |-> <<"7">>,
       filePathType |-> "number"] }

\* a session log: every line carries the session id and the permission mode,
\* each assistant line one tool call
SessionLog(i, mode, used) ==
    [file |-> i, readable |-> TRUE, sessionId |-> i, cwd |-> "/p",
     permissionMode |-> mode,
     assistant |-> [c \in 1..Len(used) |->
                       [type |-> "assistant", toolCalls |-> <<used[c]>>, timestamp |-> c]]]

GetSecurityAudit ==
    /\ secOp = "none"
    /\ \E n \in 0..MaxLogs :
           \E mode \in [1..n -> RecordedModes], size \in [1..n -> 0..MaxToolCalls] :
               \E used \in [1..n -> [1..MaxToolCalls -> ToolCalls]] :
                   LET logs == [i \in 1..n |->
                                   SessionLog(i, mode[i], SubSeq(used[i], 1, size[i]))]
                   IN /\ \A i \in 1..n : \A c \in (size[i] + 1)..MaxToolCalls :
                             used[i][c] = used[i][1]
                      /\ secArg' = [logs |-> logs]
                      /\ secResult' = getSecurityAudit(logs)
    /\ secOp' = "getSecurityAudit"
    /\ UNCHANGED <<secAltArg, secAltResult>>
    /\ UNCHANGED <<priceVars, overviewVars, indexVars, tokenVars, turnVars, filterVars, serverVars, parserVars, probeVars, expensiveVars>>

(***************************************************************************)
(* Session filters (src/analysis/sessions.js, src/server/api.js)           *)
(***************************************************************************)
\* the most sessions of a list that is filtered
MaxFiltered == 3

\* the UTF-16 code units of the characters of dates
CodeUnit ==
    [c \in {"-", "0", "1", "2", "3", "4", "5", "6", "7", "8", "9"} |->
        CASE c = "-" -> 45 [] c = "0" -> 48 [] c = "1" -> 49 [] c = "2" -> 50
          [] c = "3" -> 51 [] c = "4" -> 52 [] c = "5" -> 53 [] c = "6" -> 54
          [] c = "7" -> 55 [] c = "8" -> 56 [] c = "9" -> 57]

\* a <= b on strings: the comparison of the code units from position i on
RECURSIVE StrLeqFrom(_, _, _)
StrLeqFrom(a, b, i) ==
    IF i > Len(a) THEN TRUE
    ELSE IF i > Len(b) THEN FALSE
    ELSE IF CodeUnit[a[i]] < CodeUnit[b[i]] THEN TRUE
    ELSE IF CodeUnit[a[i]] > CodeUnit[b[i]] THEN FALSE
    ELSE StrLeqFrom(a, b, i + 1)

StrLeq(a, b) == StrLeqFrom(a, b, 1)

\* a string is given: neither null, undefined nor empty
Truthy(s) == s # NullStr /\ s # <<>>

\* parseFilters(params): the given ones of from, to and project, or null
parseFilters(params) ==
    IF ~Truthy(params.from) /\ ~Truthy(params.to) /\ ~Truthy(params.project)
    THEN NullObj
    ELSE [from |-> IF Truthy(params.from) THEN params.from ELSE NullStr,
          to |-> IF Truthy(params.to) THEN params.to ELSE NullStr,
          project |-> IF Truthy(params.project) THEN params.project ELSE NullStr]

\* a lower bound that leaves out the sessions dated on the bound
FilterAfterFrom(result, from) ==
    SelectSeq(result, LAMBDA s : Truthy(s.date) /\ StrLeq(from, s.date) /\ s.date # from)

\* result.filter(s => s.date && s.date >= filters.from)
FilterFrom(result, from) ==
    SelectSeq(result, LAMBDA s : Truthy(s.date) /\ StrLeq(from, s.date))

\* result.filter(s => s.date && s.date <= filters.to)
FilterTo(result, to) ==
    SelectSeq(result, LAMBDA s : Truthy(s.date) /\ StrLeq(s.date, to))

\* result.filter(s => s.project && s.project === filters.project)
FilterProject(result, project) ==
    SelectSeq(result, LAMBDA s : Truthy(s.project) /\ s.project = project)

applyFilters(sessions, filters) ==
    IF filters = NullObj THEN sessions
    ELSE Bind(IF Truthy(filters.from) THEN FilterFrom(sessions, filters.from)
              ELSE sessions, LAMBDA afterFrom :
         Bind(IF Truthy(filters.to) THEN FilterTo(afterFrom, filters.to)
              ELSE afterFrom, LAMBDA afterTo :
             IF Truthy(filters.project) THEN FilterProject(afterTo, filters.project)
             ELSE afterTo))

Date0107 == <<"2","0","2","6","-","0","1","-","0","7">>
Date0110 == <<"2","0","2","6","-","0","1","-","1","0">>
\* a date that is not zero-padded: it sorts after both, though it lies
\* between them
Date19 == <<"2","0","2","6","-","1","-","9">>
ProjectP == <<"/", "p">>
ProjectQ == <<"/", "q">>

\* the sessions that are filtered: dated or not, with or without project
FilterSessions ==
    [date : {Date0107, Date0110, Date19, NullStr}, project : {ProjectP, NullStr}]

\* the query parameters of a request
FilterParams ==
    [from : {NullStr, <<>>, Date0107, Date0110},
     to : {NullStr, Date0107, Date0110},
     project : {NullStr, ProjectP, ProjectQ}]

FilterIdle ==
    /\ fltSessions = <<>>
    /\ fltFilters = NullObj
    /\ fltResult = <<>>
    /\ fltDone = FALSE

\* getSessions(parseFilters(params)) on a built session list
GetSessions ==
    /\ ~fltDone
    /\ \E n \in 0..MaxFiltered, params \in FilterParams :
           \E picked \in [1..n -> FilterSessions] :
               LET sessions == [i \in 1..n |->
                                   [sessionId |-> i, date |-> picked[i].date,
                                    project |-> picked[i].project]]
                   filters == parseFilters(params)
               IN /\ fltSessions' = sessions
                  /\ fltFilters' = filters
                  /\ fltResult' = applyFilters(sessions, filters)
    /\ fltDone' = TRUE
    /\ UNCHANGED <<priceVars, overviewVars, indexVars, tokenVars, turnVars, securityVars, serverVars, parserVars, probeVars, expensiveVars>>

(***************************************************************************)
(* The dashboard server (src/server/api.js, src/server/server.js)          *)
(***************************************************************************)
\* the most clock ticks, changes of the summary cache file and requests
MaxTicks == 2
MaxChanges == 1
MaxRequests == 2

CACHE_TTL == 5000

\* the clock advances by half the TTL
TickMs == CACHE_TTL \div 2

\* the clients that may listen on /events
Clients == {"c1", "c2"}

\* the summary cache file after its v-th change
StatsAt(v) == <<CacheEmpty, CacheFull, CacheSparse>>[(v % 3) + 1]

\* a session summary with its project
WithProject(s, project) ==
    [f \in DOMAIN s \cup {"project"} |-> IF f = "project" THEN project ELSE s[f]]

\* the session list buildAllSessions makes of the logs after the v-th
\* change, newest first
SessionsAt(v) ==
    SubSeq(<< WithProject(Session("a", 1, 2, 5,
                                  << [k |-> KeyOpus46, v |-> Usage(1, 0, 2, 0)] >>), ProjectP),
              WithProject(Session("c", 3, 1, 9,
                                  << [k |-> KeyOpus46, v |-> Usage(0, 1, 0, 1)] >>), ProjectQ) >>,
           IF v >= 2 THEN 1 ELSE 2, IF v >= 1 THEN 2 ELSE 1)

\* the filters of a filtered request
RequestFilters == {NullObj, [from |-> NullStr, to |-> NullStr, project |-> ProjectP]}

\* a memo that is still returned when its age is the TTL
IsFreshAtTtl(now, time) == now - time <= CACHE_TTL

\* (now - cacheTime) < CACHE_TTL
IsFresh(now, time) == now - time < CACHE_TTL

\* a request of /api/overview that has not been issued
NoRequest ==
    [pc |-> "idle", filters |-> NullObj, after |-> 0, stats |-> NullObj,
     statsReadAt |-> Null, sessionsReadAt |-> Null, fromMemo |-> FALSE,
     response |-> NullObj]

ServerIdle ==
    /\ srvNow = 0
    /\ diskVersion = 0
    /\ pendingNotices = 0
    /\ notified = 0
    /\ cachedOverview = NullObj
    /\ cacheTime = 0
    /\ overviewReadAt = Null
    /\ cachedSessions = NullArr
    /\ sessionsReadAt = Null
    /\ sseClients = {}
    /\ delivered = [c \in Clients |-> 0]
    /\ inflight = [r \in 1..MaxRequests |-> NoRequest]

\* time passes
Tick ==
    /\ srvNow < MaxTicks * TickMs
    /\ srvNow' = srvNow + TickMs
    /\ UNCHANGED <<diskVersion, pendingNotices, notified, cachedOverview, cacheTime,
                   overviewReadAt, cachedSessions, sessionsReadAt, sseClients, delivered,
                   inflight>>
    /\ UNCHANGED <<priceVars, overviewVars, indexVars, tokenVars, otherVars, parserVars, probeVars, expensiveVars>>

\* the producer rewrites the summary cache file; the watcher will be told
ChangeStatsFile ==
    /\ diskVersion < MaxChanges
    /\ diskVersion' = diskVersion + 1
    /\ pendingNotices' = pendingNotices + 1
    /\ UNCHANGED <<srvNow, notified, cachedOverview, cacheTime, overviewReadAt,
                   cachedSessions, sessionsReadAt, sseClients, delivered, inflight>>
    /\ UNCHANGED <<priceVars, overviewVars, indexVars, tokenVars, otherVars, parserVars, probeVars, expensiveVars>>

\* handleSSE: a client connects to /events
HandleSSE(c) ==
    /\ c \notin sseClients
    /\ sseClients' = sseClients \cup {c}
    /\ UNCHANGED <<srvNow, diskVersion, pendingNotices, notified, cachedOverview, cacheTime,
                   overviewReadAt, cachedSessions, sessionsReadAt, delivered, inflight>>
    /\ UNCHANGED <<priceVars, overviewVars, indexVars, tokenVars, otherVars, parserVars, probeVars, expensiveVars>>

\* req.on('close'): a client goes away
CloseSSE(c) ==
    /\ c \in sseClients
    /\ sseClients' = sseClients \ {c}
    /\ UNCHANGED <<srvNow, diskVersion, pendingNotices, notified, cachedOverview, cacheTime,
                   overviewReadAt, cachedSessions, sessionsReadAt, delivered, inflight>>
    /\ UNCHANGED <<priceVars, overviewVars, indexVars, tokenVars, otherVars, parserVars, probeVars, expensiveVars>>

\* the callback of fs.watch: invalidateCache(), then broadcastSSE('refresh')
WatchCallback ==
    /\ pendingNotices > 0
    /\ pendingNotices' = pendingNotices - 1
    /\ notified' = notified + 1
    /\ cachedOverview' = NullObj
    /\ cacheTime' = 0
    /\ overviewReadAt' = Null
    /\ delivered' = [c \in Clients |-> IF c \in sseClients THEN notified + 1 ELSE delivered[c]]
    /\ UNCHANGED <<srvNow, diskVersion, cachedSessions, sessionsReadAt, sseClients, inflight>>
    /\ UNCHANGED <<priceVars, overviewVars, indexVars, tokenVars, otherVars, parserVars, probeVars, expensiveVars>>

\* getOverview(filters) up to its first await: the memo is returned, or
\* readStatsCache() is called
GetOverview(r, filters) ==
    /\ inflight[r].pc = "idle"
    /\ \A q \in 1..(r - 1) : inflight[q].pc # "idle"
    /\ inflight' =
           [inflight EXCEPT ![r] =
               IF filters = NullObj /\ cachedOverview # NullObj /\ IsFresh(srvNow, cacheTime)
               THEN [NoRequest EXCEPT !.pc = "done", !.after = notified, !.fromMemo = TRUE,
                                      !.statsReadAt = overviewReadAt,
                                      !.response = cachedOverview]
               ELSE [NoRequest EXCEPT !.pc = "readStatsCache", !.filters = filters,
                                      !.after = notified]]
    /\ UNCHANGED <<srvNow, diskVersion, pendingNotices, notified, cachedOverview, cacheTime,
                   overviewReadAt, cachedSessions, sessionsReadAt, sseClients, delivered>>
    /\ UNCHANGED <<priceVars, overviewVars, indexVars, tokenVars, otherVars, parserVars, probeVars, expensiveVars>>

\* readStatsCache() reads the file
StatsRead(r) ==
    /\ inflight[r].pc = "readStatsCache"
    /\ inflight' = [inflight EXCEPT ![r].pc = "haveStats",
                                    ![r].stats = StatsAt(diskVersion),
                                    ![r].statsReadAt = diskVersion]
    /\ UNCHANGED <<srvNow, diskVersion, pendingNotices, notified, cachedOverview, cacheTime,
                   overviewReadAt, cachedSessions, sessionsReadAt, sseClients, delivered>>
    /\ UNCHANGED <<priceVars, overviewVars, indexVars, tokenVars, otherVars, parserVars, probeVars, expensiveVars>>

\* getOverview without filters after the await: build, memoize, return
StoreOverview(r) ==
    /\ inflight[r].pc = "haveStats"
    /\ inflight[r].filters = NullObj
    /\ LET data == buildOverview(inflight[r].stats, NullObj, NullArr)
       IN /\ cachedOverview' = data
          /\ cacheTime' = srvNow
          /\ overviewReadAt' = inflight[r].statsReadAt
          /\ inflight' = [inflight EXCEPT ![r].pc = "done", ![r].response = data]
    /\ UNCHANGED <<srvNow, diskVersion, pendingNotices, notified, cachedSessions,
                   sessionsReadAt, sseClients, delivered>>
    /\ UNCHANGED <<priceVars, overviewVars, indexVars, tokenVars, otherVars, parserVars, probeVars, expensiveVars>>

\* getOverview with filters after the await: getSessions(filters) finds the
\* memoized session list, or calls buildAllSessions()
FilteredOverview(r) ==
    /\ inflight[r].pc = "haveStats"
    /\ inflight[r].filters # NullObj
    /\ inflight' =
           [inflight EXCEPT ![r] =
               IF cachedSessions # NullArr
               THEN [@ EXCEPT !.pc = "done",
                              !.sessionsReadAt = sessionsReadAt,
                              !.response = buildOverview(inflight[r].stats, inflight[r].filters,
                                                         applyFilters(cachedSessions, inflight[r].filters))]
               ELSE [@ EXCEPT !.pc = "buildAllSessions"]]
    /\ UNCHANGED <<srvNow, diskVersion, pendingNotices, notified, cachedOverview, cacheTime,
                   overviewReadAt, cachedSessions, sessionsReadAt, sseClients, delivered>>
    /\ UNCHANGED <<priceVars, overviewVars, indexVars, tokenVars, otherVars, parserVars, probeVars, expensiveVars>>

\* buildAllSessions() has read the logs: the list is memoized, filtered and
\* the overview of it returned
SessionsBuilt(r) ==
    /\ inflight[r].pc = "buildAllSessions"
    /\ LET sessions == SessionsAt(diskVersion)
       IN /\ cachedSessions' = sessions
          /\ sessionsReadAt' = diskVersion
          /\ inflight' =
                 [inflight EXCEPT ![r] =
                     [@ EXCEPT !.pc = "done",
                               !.sessionsReadAt = diskVersion,
                               !.response = buildOverview(inflight[r].stats, inflight[r].filters,
                                                          applyFilters(sessions, inflight[r].filters))]]
    /\ UNCHANGED <<srvNow, diskVersion, pendingNotices, notified, cachedOverview, cacheTime,
                   overviewReadAt, sseClients, delivered>>
    /\ UNCHANGED <<priceVars, overviewVars, indexVars, tokenVars, otherVars, parserVars, probeVars, expensiveVars>>

(***************************************************************************)
(* Reading a session file (src/data/session-parser.js)                     *)
(***************************************************************************)
\* the most lines of a session file
MaxLines == 3

\* the timestamps of lines: none, one that is no date, the epoch and two
\* later instants
Epoch == "1970-01-01T00:00:00.000Z"
Instant3 == "1970-01-01T00:00:00.003Z"
Instant7 == "1970-01-01T00:00:00.007Z"
LineTimestamps == {"", "soon", Epoch, Instant3, Instant7}

\* new Date(timestamp).getTime()
getTime(timestamp) ==
    CASE timestamp = Epoch -> 0
      [] timestamp = Instant3 -> 3
      [] timestamp = Instant7 -> 7
      [] OTHER -> NaN

\* !t for a timestamp kept so far: null, 0 and NaN are falsy
NoTimestamp(t) == t = Null \/ t = 0 \/ t = NaN

\* a < b on numbers: false when either is NaN
JsLess(a, b) == a # NaN /\ b # NaN /\ a < b

\* the state of the loop before the first line
NoLines ==
    [sessionId |-> "", projectPath |-> "", gitBranch |-> "",
     firstTimestamp |-> Null, lastTimestamp |-> Null, messages |-> <<>>]

\* a parse that gives up at the first line that is no JSON
\* the body of the loop for a line that JSON.parse decodes to an object
ParseEvent(acc, obj) ==
    LET ts == getTime(obj.timestamp)
    IN [sessionId |-> IF acc.sessionId = "" /\ obj.sessionId # ""
                      THEN obj.sessionId ELSE acc.sessionId,
        projectPath |-> IF acc.projectPath = "" /\ obj.cwd # ""
                        THEN obj.cwd ELSE acc.projectPath,
        gitBranch |-> IF acc.gitBranch = "" /\ obj.gitBranch # ""
                      THEN obj.gitBranch ELSE acc.gitBranch,
        firstTimestamp |-> IF obj.timestamp # ""
                              /\ (NoTimestamp(acc.firstTimestamp)
                                     \/ JsLess(ts, acc.firstTimestamp))
                           THEN ts ELSE acc.firstTimestamp,
        lastTimestamp |-> IF obj.timestamp # ""
                             /\ (NoTimestamp(acc.lastTimestamp)
                                    \/ JsLess(acc.lastTimestamp, ts))
                          THEN ts ELSE acc.lastTimestamp,
        messages |-> IF obj.type = "assistant" /\ obj.message # NullObj
                     THEN Append(acc.messages,
                                 [type |-> "assistant", timestamp |-> obj.timestamp,
                                  body |-> obj.message])
                     ELSE IF obj.type = "user" /\ obj.message # NullObj /\ ~obj.isMeta
                     THEN Append(acc.messages,
                                 [type |-> "user", timestamp |-> obj.timestamp,
                                  body |-> obj.message])
                     ELSE acc.messages]

\* a loop that gives up at the first line that is no JSON
ParseLineOrStop(acc, line) ==
    IF "stopped" \in DOMAIN acc \/ line.kind = "malformed"
    THEN [f \in DOMAIN acc \cup {"stopped"} |-> IF f = "stopped" THEN TRUE ELSE acc[f]]
    ELSE IF line.kind = "event" THEN ParseEvent(acc, line) ELSE acc

\* the body of the loop: a blank line is passed over, a line that is no JSON
\* and the JSON null (whose property read throws) end in the catch
ParseLine(acc, line) ==
    IF line.kind = "event" THEN ParseEvent(acc, line) ELSE acc

\* for await (const line of rl)
RECURSIVE ParseLinesFrom(_, _, _)
ParseLinesFrom(lines, i, acc) ==
    IF i > Len(lines) THEN acc
    ELSE ParseLinesFrom(lines, i + 1, ParseLine(acc, lines[i]))

\* parseSessionFile(filePath) for a file of the given lines
parseSessionLines(fileName, lines) ==
    Bind(ParseLinesFrom(lines, 1, NoLines), LAMBDA acc :
        [sessionId |-> IF acc.sessionId # "" THEN acc.sessionId ELSE fileName,
         projectPath |-> acc.projectPath,
         gitBranch |-> acc.gitBranch,
         firstTimestamp |-> acc.firstTimestamp,
         lastTimestamp |-> acc.lastTimestamp,
         duration |-> IF ~NoTimestamp(acc.firstTimestamp) /\ ~NoTimestamp(acc.lastTimestamp)
                      THEN acc.lastTimestamp - acc.firstTimestamp ELSE 0,
         messages |-> acc.messages,
         messageCount |-> Len(acc.messages),
         assistantMessages |-> SelectSeq(acc.messages, LAMBDA m : m.type = "assistant"),
         userMessages |-> SelectSeq(acc.messages, LAMBDA m : m.type = "user")])

\* a line that decodes to an event
EventLine(sessionId, timestamp, type, isMeta) ==
    [kind |-> "event", sessionId |-> sessionId,
     cwd |-> IF sessionId = "" THEN "" ELSE "/p/" \o sessionId,
     gitBranch |-> IF sessionId = "" THEN "" ELSE "main",
     timestamp |-> timestamp, type |-> type, isMeta |-> isMeta,
     message |-> [content |-> type]]

\* a line that is blank, that is no JSON, or that is the JSON null
OtherLine(kind) ==
    [kind |-> kind, sessionId |-> "", cwd |-> "", gitBranch |-> "", timestamp |-> "",
     type |-> "", isMeta |-> FALSE, message |-> NullObj]

\* the lines of session files
FileLines ==
    {EventLine(id, t, type, FALSE) :
         id \in {"", "s1", "s2"}, t \in LineTimestamps, type \in {"assistant", "user"}}
        \cup {EventLine("s1", Instant3, "user", TRUE)}
        \cup {OtherLine(kind) : kind \in {"blank", "malformed", "null"}}

ParserIdle ==
    /\ fileLines = <<>>
    /\ fileSession = NullObj
    /\ fileSummary = NullObj

\* a session file is read
ParseSessionFile ==
    /\ fileSession = NullObj
    /\ \E n \in 0..MaxLines :
           \E lines \in [1..n -> FileLines] :
               /\ fileLines' = lines
               /\ fileSession' = parseSessionLines("f", lines)
    /\ fileSummary' = NullObj
    /\ UNCHANGED <<priceVars, overviewVars, indexVars, tokenVars, otherVars, serverVars, probeVars, expensiveVars>>

(***************************************************************************)
(* Probing a session file (src/data/reader: probeSessionFile)              *)
(***************************************************************************)
\* the most lines of a probed file
MaxProbeLines == 53

\* the number of non-blank lines after which the probe may stop
ProbeLines == 50

\* a probe that may stop once it has read that many lines
EnoughLinesAt(linesRead) == linesRead >= ProbeLines

\* linesRead > 50
EnoughLines(linesRead) == linesRead > ProbeLines

\* the lines of a probed file: blank, no JSON, or an event with or without
\* session id and working directory, of an assistant or of a user whose
\* prompt may be empty
ProbedLines ==
    {[kind |-> kind, sessionId |-> "", cwd |-> "", type |-> "", content |-> ""] :
         kind \in {"blank", "malformed"}}
        \cup {[kind |-> "event", sessionId |-> id, cwd |-> cwd, type |-> "assistant",
               content |-> ""] : id \in {"", "s1"}, cwd \in {"", "/p"}}
        \cup {[kind |-> "event", sessionId |-> id, cwd |-> cwd, type |-> "user",
               content |-> content] :
                  id \in {"", "s1"}, cwd \in {"", "/p"}, content \in {"", "fix it"}}

\* the probe before its first line
ProbeIdle ==
    probe = [status |-> "closed", position |-> 0, linesRead |-> 0, sessionId |-> "",
             cwd |-> "", firstPrompt |-> ""]

\* the body of the try block of the loop, as far as it bears on when the
\* probe stops (the message count, the timestamps and the branch do not)
ProbeEvent(p, obj) ==
    [p EXCEPT !.sessionId = IF @ = "" /\ obj.sessionId # "" THEN obj.sessionId ELSE @,
              !.cwd = IF @ = "" /\ obj.cwd # "" THEN obj.cwd ELSE @,
              !.firstPrompt = IF @ = "" /\ obj.type = "user" THEN obj.content ELSE @]

\* createReadStream and createInterface
OpenProbe ==
    /\ probe.status = "closed"
    /\ probe' = [probe EXCEPT !.status = "reading"]
    /\ UNCHANGED <<priceVars, overviewVars, indexVars, tokenVars, otherVars, serverVars, parserVars, expensiveVars>>

\* one turn of the loop: a blank line is passed over; any other line is
\* counted and, if it decodes, looked at; then the probe stops if it has
\* read enough lines and found the id, the directory and a prompt
ProbeLine ==
    /\ probe.status = "reading"
    /\ probe.position < MaxProbeLines
    /\ \E line \in ProbedLines :
           IF line.kind = "blank"
           THEN probe' = [probe EXCEPT !.position = @ + 1]
           ELSE LET counted == [probe EXCEPT !.position = @ + 1, !.linesRead = @ + 1]
                    after == IF line.kind = "event" THEN ProbeEvent(counted, line)
                             ELSE counted
                IN probe' = [after EXCEPT !.status =
                                 IF EnoughLines(after.linesRead) /\ after.sessionId # ""
                                        /\ after.cwd # "" /\ after.firstPrompt # ""
                                 THEN "stopped" ELSE "reading"]
    /\ UNCHANGED <<priceVars, overviewVars, indexVars, tokenVars, otherVars, serverVars, parserVars, expensiveVars>>

\* the file has no more lines
ProbeEndOfFile ==
    /\ probe.status = "reading"
    /\ probe' = [probe EXCEPT !.status = "end"]
    /\ UNCHANGED <<priceVars, overviewVars, indexVars, tokenVars, otherVars, serverVars, parserVars, expensiveVars>>

\* the read throws: the probe returns null
ProbeFails ==
    /\ probe.status = "reading"
    /\ probe' = [probe EXCEPT !.status = "failed"]
    /\ UNCHANGED <<priceVars, overviewVars, indexVars, tokenVars, otherVars, serverVars, parserVars, expensiveVars>>

(***************************************************************************)
(* The summary of a session (src/analysis/sessions.js: buildAllSessions)   *)
(***************************************************************************)
\* the lines of a file that the probe decodes to an object
RECURSIVE ProbedEvents(_)
ProbedEvents(lines) ==
    IF lines = <<>> THEN <<>>
    ELSE (IF Head(lines).kind = "event" THEN <<Head(lines)>> ELSE <<>>)
             \o ProbedEvents(Tail(lines))

\* the probe's created: the timestamp of the first event that carries one,
\* as it is written in the file, or null; for a file short enough to be read
\* to its end
ProbeCreated(lines) ==
    LET stamped == SelectSeq(ProbedEvents(lines), LAMBDA obj : obj.timestamp # "")
    IN IF stamped = <<>> THEN "" ELSE Head(stamped).timestamp

\* the probe's messageCount
ProbeMessageCount(lines) ==
    Len(SelectSeq(ProbedEvents(lines), LAMBDA obj : obj.type \in {"user", "assistant"}))

\* created.split('T')[0]
DatePart(created) ==
    IF created \in {Epoch, Instant3, Instant7} THEN "1970-01-01" ELSE created

\* the entry buildAllSessions pushes for a probed file and its parsed
\* session: the date is taken from the entry, the duration from the session
SessionSummary(lines, session) ==
    [sessionId |-> session.sessionId,
     date |-> IF ProbeCreated(lines) # "" THEN DatePart(ProbeCreated(lines)) ELSE "",
     messages |-> ProbeMessageCount(lines),
     duration |-> session.duration]

\* buildAllSessions pushes the summary of the file that was read
BuildSessionSummary ==
    /\ fileSession # NullObj
    /\ fileSummary = NullObj
    /\ fileSummary' = SessionSummary(fileLines, fileSession)
    /\ UNCHANGED <<fileLines, fileSession>>
    /\ UNCHANGED <<priceVars, overviewVars, indexVars, tokenVars, otherVars, serverVars, probeVars, expensiveVars>>

(***************************************************************************)
(* The most expensive prompts (src/analysis/expensive-prompts.js)          *)
(***************************************************************************)
\* the most prompt turns of the largest session on disk
MaxPrompts == 51
\* the most calls of getExpensivePrompts in one process
MaxExpensiveCalls == 2
\* allPrompts.slice(0, 50)
TopPrompts == 50

TimeOfDay == <<"T","0","9",":","0","0",":","0","0","Z">>

\* timestamp.split('T')[0]
RECURSIVE BeforeT(_)
BeforeT(s) ==
    IF s = <<>> \/ Head(s) = "T" THEN <<>> ELSE <<Head(s)>> \o BeforeT(Tail(s))

\* the loop over pair.responses: the cost of the responses that have usage
\* and model (the token totals, the tools and the reasons do not bear on
\* which turns are returned)
RECURSIVE TurnCost(_)
TurnCost(responses) ==
    IF responses = <<>> THEN 0
    ELSE IF Head(responses).usage = NullObj \/ Head(responses).model = NullStr
         THEN TurnCost(Tail(responses))
         ELSE calculateCost(Head(responses).usage, Head(responses).model).totalCost
              + TurnCost(Tail(responses))

\* the model of the last response that has usage and model
RECURSIVE TurnModel(_, _)
TurnModel(responses, model) ==
    IF responses = <<>> THEN model
    ELSE IF Head(responses).usage = NullObj \/ Head(responses).model = NullStr
         THEN TurnModel(Tail(responses), model)
         ELSE TurnModel(Tail(responses), Head(responses).model)

\* the entry pushed for a turn that cost something
PromptEntry(session, pair) ==
    [date |-> IF Truthy(pair.prompt.timestamp) THEN BeforeT(pair.prompt.timestamp)
              ELSE NullStr,
     timestamp |-> pair.prompt.timestamp,
     sessionId |-> session.sessionId,
     project |-> session.projectPath,
     model |-> TurnModel(pair.responses, NullStr),
     cost |-> TurnCost(pair.responses),
     turnIndex |-> pair.turnIndex]

\* for (const pair of pairs): if (totalCost <= 0) continue; allPrompts.push
PushPrompts(allPrompts, session, sessionPairs) ==
    allPrompts \o SelectSeq([i \in 1..Len(sessionPairs) |->
                                PromptEntry(session, sessionPairs[i])],
                            LAMBDA entry : entry.cost > 0)

\* the loops over the project directories and their session files
RECURSIVE AllPrompts(_, _)
AllPrompts(allPrompts, files) ==
    IF files = <<>> THEN allPrompts
    ELSE AllPrompts(PushPrompts(allPrompts, Head(files), Head(files).pairs),
                    Tail(files))

\* the place of prompts[i] after allPrompts.sort((a, b) => b.cost - a.cost):
\* behind the dearer ones and, the sort being stable, behind the equally
\* dear ones that were pushed before it
PlaceOf(prompts, i) ==
    1 + Cardinality({j \in 1..Len(prompts) :
                        \/ prompts[j].cost > prompts[i].cost
                        \/ prompts[j].cost = prompts[i].cost /\ j < i})

SortPrompts(prompts) ==
    [k \in 1..Len(prompts) |->
        prompts[CHOOSE i \in 1..Len(prompts) : PlaceOf(prompts, i) = k]]

\* slice(0, n)
Slice(s, n) == SubSeq(s, 1, IF Len(s) < n THEN Len(s) ELSE n)

\* a ranking that keeps every turn
KeepAll(sorted) == sorted

\* allPrompts.slice(0, 50)
TopOf(sorted) == Slice(sorted, TopPrompts)

buildExpensivePrompts(files) == TopOf(SortPrompts(AllPrompts(<<>>, files)))

\* the three filters of getExpensivePrompts; a prompt without date passes
\* neither date filter, null compared with a date string being false
FilterPrompts(results, filters) ==
    IF filters = NullObj THEN results
    ELSE Bind(IF Truthy(filters.from)
              THEN SelectSeq(results, LAMBDA p : Truthy(p.date) /\ StrLeq(filters.from, p.date))
              ELSE results, LAMBDA afterFrom :
         Bind(IF Truthy(filters.to)
              THEN SelectSeq(afterFrom, LAMBDA p : Truthy(p.date) /\ StrLeq(p.date, filters.to))
              ELSE afterFrom, LAMBDA afterTo :
             IF Truthy(filters.project)
             THEN SelectSeq(afterTo, LAMBDA p : p.project = filters.project)
             ELSE afterTo))

\* one response with the given number of output tokens
ResponseOf(output, model) ==
    [usage |-> Usage(0, output, 0, 0), model |-> model]

\* a response that has no usage
NoUsage == [usage |-> NullObj, model |-> NullStr]

\* turn k of a session: its day and its cost vary with k
Turn(k, model) ==
    [prompt |-> [timestamp |-> (IF k % 2 = 0 THEN Date0107 ELSE Date0110) \o TimeOfDay],
     responses |-> <<NoUsage, ResponseOf(1 + (k % 3), model)>>,
     turnIndex |-> k]

\* a session of project /p with n turns on Opus
SessionP(n) ==
    [sessionId |-> "sp", projectPath |-> ProjectP,
     pairs |-> [i \in 1..n |-> Turn(i - 1, KeyOpus46)]]

\* a session of project /q with one cheap turn
SessionQ ==
    [sessionId |-> "sq", projectPath |-> ProjectQ,
     pairs |-> <<Turn(0, KeySonnet46)>>]

\* a session whose only turn has no usage and no timestamp
SessionZ ==
    [sessionId |-> "sz", projectPath |-> ProjectQ,
     pairs |-> << [prompt |-> [timestamp |-> NullStr], responses |-> <<NoUsage>>,
                   turnIndex |-> 0] >>]

\* a session written while the process runs: one dear turn of project /q
SessionNew ==
    [sessionId |-> "new", projectPath |-> ProjectQ,
     pairs |-> <<Turn(2, KeyOpus46)>>]

\* the filters of the calls
ExpensiveFilters ==
    {NullObj,
     [from |-> Date0110, to |-> NullStr, project |-> NullStr],
     [from |-> NullStr, to |-> Date0107, project |-> NullStr],
     [from |-> NullStr, to |-> NullStr, project |-> ProjectQ]}

ExpensiveIdle ==
    /\ sessionFiles = <<>>
    /\ cachedExpensive = NullArr
    /\ expensiveCalls = 0
    /\ expensiveCall = NullObj
    /\ expensiveResult = NullArr

\* the session files found on disk when the process starts
WriteSessionFiles ==
    /\ sessionFiles = <<>>
    /\ expensiveCalls = 0
    /\ \E n \in 0..MaxPrompts, q \in BOOLEAN, z \in BOOLEAN :
           sessionFiles' = <<SessionP(n)>> \o (IF q THEN <<SessionQ>> ELSE <<>>)
                                           \o (IF z THEN <<SessionZ>> ELSE <<>>)
    /\ UNCHANGED <<cachedExpensive, expensiveCalls, expensiveCall, expensiveResult>>
    /\ UNCHANGED <<priceVars, overviewVars, indexVars, tokenVars, otherVars, serverVars, parserVars, probeVars>>

\* a session file is added between two calls
AddSessionFile ==
    /\ sessionFiles # <<>>
    /\ expensiveCalls = 1
    /\ sessionFiles[Len(sessionFiles)] # SessionNew
    /\ sessionFiles' = Append(sessionFiles, SessionNew)
    /\ UNCHANGED <<cachedExpensive, expensiveCalls, expensiveCall, expensiveResult>>
    /\ UNCHANGED <<priceVars, overviewVars, indexVars, tokenVars, otherVars, serverVars, parserVars, probeVars>>

\* getExpensivePrompts(filters): the ranking is built by the first call and
\* kept; the call is logged with the files that were on disk
GetExpensivePrompts ==
    /\ sessionFiles # <<>>
    /\ expensiveCalls < MaxExpensiveCalls
    /\ \E filters \in ExpensiveFilters :
       \E ranking \in {IF cachedExpensive = NullArr
                        THEN buildExpensivePrompts(sessionFiles)
                        ELSE cachedExpensive} :
           /\ cachedExpensive' = ranking
           /\ expensiveResult' = FilterPrompts(ranking, filters)
           /\ expensiveCall' = [filters |-> filters, files |-> sessionFiles]
    /\ expensiveCalls' = expensiveCalls + 1
    /\ UNCHANGED sessionFiles
    /\ UNCHANGED <<priceVars, overviewVars, indexVars, tokenVars, otherVars, serverVars, parserVars, probeVars>>

(***************************************************************************)
(* Specifications                                                          *)
(***************************************************************************)
Init ==
    /\ PriceIdle /\ OverviewIdle /\ IndexIdle /\ TokenIdle
    /\ TurnIdle /\ SecurityIdle /\ FilterIdle /\ ServerIdle
    /\ ParserIdle /\ ProbeIdle /\ ExpensiveIdle

Next == ReadStatsCache \/ BuildOverview \/ BuildOverviewAgain \/ PrintSummary

\* the overview aggregator
Spec == Init /\ [][Next]_vars

NextPricing == CallGetPricing \/ CallCalculateCost

\* the pricing table
SpecPricing == Init /\ [][NextPricing]_vars

NextIndexer == GetAllSessionIndexes

\* the session indexer
SpecIndexer == Init /\ [][NextIndexer]_vars

NextTokens == AggregateBySession

\* the token aggregation
SpecTokens == Init /\ [][NextTokens]_vars

NextTurns == PairMessages

\* the turn pairing
SpecTurns == Init /\ [][NextTurns]_vars

NextBash == ClassifyBashCommand

\* the classification of Bash commands
SpecBash == Init /\ [][NextBash]_vars

NextMcp == AssessMcpRisk

\* the MCP risk assessment
SpecMcp == Init /\ [][NextMcp]_vars

NextAudit == GetSecurityAudit

\* the audit of the session logs
SpecAudit == Init /\ [][NextAudit]_vars

NextFilters == GetSessions

\* the session filters
SpecFilters == Init /\ [][NextFilters]_vars

NextServer ==
    \/ Tick
    \/ ChangeStatsFile
    \/ WatchCallback
    \/ \E c \in Clients : HandleSSE(c)
    \/ \E c \in Clients : CloseSSE(c)
    \/ \E r \in 1..MaxRequests, filters \in RequestFilters : GetOverview(r, filters)
    \/ \E r \in 1..MaxRequests : StatsRead(r)
    \/ \E r \in 1..MaxRequests : StoreOverview(r)
    \/ \E r \in 1..MaxRequests : FilteredOverview(r)
    \/ \E r \in 1..MaxRequests : SessionsBuilt(r)

\* the dashboard server in watch mode
SpecServer == Init /\ [][NextServer]_vars

NextParser == ParseSessionFile \/ BuildSessionSummary

\* reading and summarising one session file
SpecParser == Init /\ [][NextParser]_vars

NextProbe ==
    \/ OpenProbe
    \/ ProbeLine
    \/ ProbeEndOfFile
    \/ ProbeFails

\* the probe of one session file
SpecProbe == Init /\ [][NextProbe]_vars

\* the probe is not held up for ever: a file has an end
SpecProbeFair == SpecProbe /\ WF_vars(NextProbe)

NextExpensive == WriteSessionFiles \/ AddSessionFile \/ GetExpensivePrompts

\* the ranking of the most expensive prompts
SpecExpensive == Init /\ [][NextExpensive]_vars

NextAnomalies == DetectAnomalies

\* the anomaly detection
SpecAnomalies == Init /\ [][NextAnomalies]_vars

(***************************************************************************)
(* Properties of the pricing table (SpecPricing)                           *)
(***************************************************************************)
RateFields == {"input", "output", "cacheRead", "cacheWrite"}

\* the resolution order as documented: exact table key, first prefix key,
\* "opus", "haiku", else the Sonnet-tier "Unknown Model" entry
DocumentedPricing(modelId) ==
    IF HasKey(MODEL_PRICING, modelId) THEN GetKey(MODEL_PRICING, modelId)
    ELSE IF \E i \in 1..Len(MODEL_PRICING) : startsWith(modelId, MODEL_PRICING[i].k)
         THEN MODEL_PRICING[CHOOSE i \in 1..Len(MODEL_PRICING) :
                               /\ startsWith(modelId, MODEL_PRICING[i].k)
                               /\ \A j \in 1..(i - 1) : ~startsWith(modelId, MODEL_PRICING[j].k)].v
    ELSE IF includes(modelId, StrOpus) THEN Entry(OpusRates, "Unknown Model")
    ELSE IF includes(modelId, StrHaiku) THEN Entry(HaikuRates, "Unknown Model")
    ELSE Entry(SonnetRates, "Unknown Model")

\* C7: getPricing resolves an id in strict priority order: exact key, else
\* first prefix key in table order, else Opus rates for "opus", else Haiku
\* rates for "haiku", else the Sonnet-tier "Unknown Model" entry.
C7_PriorityOrder ==
    priceOp = "getPricing" => resPricing = DocumentedPricing(reqModelId)

\* C8: getPricing returns, for any string, an entry whose four per-million
\* rates are numbers.
C8_FourNumericRates ==
    priceOp = "getPricing" => \A f \in RateFields : resPricing[f] \in Nat

\* the cost the four counters and the documented rates give, in 1e-8 USD
DocumentedCost(usage, modelId) ==
    Or0(usage.inputTokens) * DocumentedPricing(modelId).input
        + Or0(usage.outputTokens) * DocumentedPricing(modelId).output
        + Or0(usage.cacheReadInputTokens) * DocumentedPricing(modelId).cacheRead
        + Or0(usage.cacheCreationInputTokens) * DocumentedPricing(modelId).cacheWrite

\* C9: calculateCost's totalCost is the sum over the four counters of
\* counter x rate / 1e6, which is also the sum of its four parts, and it is 0
\* for a usage without tokens, whatever the model id.
C9_TotalIsCounterTimesRate ==
    priceOp = "calculateCost" =>
        /\ resCost.totalCost = DocumentedCost(reqUsage, reqModelId)
        /\ resCost.totalCost
               = JsAdd(JsAdd(JsAdd(resCost.inputCost, resCost.outputCost),
                             resCost.cacheReadCost), resCost.cacheWriteCost)
        /\ (\A c \in Counters : Or0(reqUsage[c]) = 0) => resCost.totalCost = 0

(***************************************************************************)
(* Properties of the overview aggregator (Spec)                            *)
(***************************************************************************)
\* the model ids the caches and the sessions carry
OverviewModels == <<KeyOpus46, KeySonnet45, IdTestModel, IdHaiku9>>

CounterSeq ==
    <<"inputTokens", "outputTokens", "cacheReadInputTokens", "cacheCreationInputTokens">>

RateOf ==
    [inputTokens |-> "input", outputTokens |-> "output",
     cacheReadInputTokens |-> "cacheRead", cacheCreationInputTokens |-> "cacheWrite"]

\* the count of one counter of one model in a per-model usage object
TokensIn(modelUsage, model, c) ==
    IF HasKey(modelUsage, model) THEN Or0(GetKey(modelUsage, model)[c]) ELSE 0

CacheTokens(st, model, c) == TokensIn(OrEmpty(st.modelUsage), model, c)

SessionTokens(sessions, model, c) ==
    SumSeq([i \in 1..Len(sessions) |-> TokensIn(sessions[i].tokensByModel, model, c)])

\* the cost of n tokens of counter c of a model, in 1e-8 USD
TokenCost(model, c, n) == n * getPricing(model)[RateOf[c]]

CacheCost(st) ==
    SumSeq([m \in 1..Len(OverviewModels) |->
        SumSeq([k \in 1..Len(CounterSeq) |->
            TokenCost(OverviewModels[m], CounterSeq[k],
                      CacheTokens(st, OverviewModels[m], CounterSeq[k]))])])

SessionsCost(sessions) ==
    SumSeq([m \in 1..Len(OverviewModels) |->
        SumSeq([k \in 1..Len(CounterSeq) |->
            TokenCost(OverviewModels[m], CounterSeq[k],
                      SessionTokens(sessions, OverviewModels[m], CounterSeq[k]))])])

\* the last call took the supplementation path
OnSupplementPath ==
    call.by # "none" /\ Supplements(call.stats, call.filters, call.sessions)

DatedOnOrBefore(s, d) == s.date # Null /\ s.date <= d
DatedAfter(s, d) == s.date # Null /\ s.date > d

\* C1: with a cache computed up to D, no filters and sessions both on or
\* before D and after D, the supplemented totalCost is the cache's cost plus
\* the cost of the sessions dated after D only.
C1_OnlyLaterSessionsCounted ==
    ( /\ call.by = "buildOverview"
      /\ OnSupplementPath
      /\ call.stats.lastComputedDate # Null
      /\ \E i \in 1..Len(call.sessions) :
             DatedOnOrBefore(call.sessions[i], call.stats.lastComputedDate)
      /\ \E i \in 1..Len(call.sessions) :
             DatedAfter(call.sessions[i], call.stats.lastComputedDate) )
    => overview.totalCost
           = CacheCost(call.stats)
               + SessionsCost(RecentSessions(call.sessions, call.stats.lastComputedDate))

\* the models with a breakdown row
RowModels == {overview.modelBreakdown[i].modelId : i \in 1..Len(overview.modelBreakdown)}

\* C2: on the supplementation path totalCost, totalMessages and
\* totalSessions are the cache's value plus the value of the session list,
\* each model has one breakdown row holding the cache's counters plus the
\* sessions' counters, and the rows' costs add up to totalCost.
C2_TotalsAreCachePlusSupplement ==
    OnSupplementPath =>
        /\ overview.totalCost = CacheCost(call.stats) + SessionsCost(call.sessions)
        /\ overview.totalMessages
               = Or0(call.stats.totalMessages)
                   + SumSeq([i \in 1..Len(call.sessions) |-> Or0(call.sessions[i].messages)])
        /\ overview.totalSessions = Or0(call.stats.totalSessions) + Len(call.sessions)
        /\ Cardinality(RowModels) = Len(overview.modelBreakdown)
        /\ RowModels
               = {OverviewModels[m] : m \in
                     {n \in 1..Len(OverviewModels) :
                         \/ HasKey(OrEmpty(call.stats.modelUsage), OverviewModels[n])
                         \/ \E i \in 1..Len(call.sessions) :
                                HasKey(call.sessions[i].tokensByModel, OverviewModels[n])}}
        /\ \A i \in 1..Len(overview.modelBreakdown) :
               LET row == overview.modelBreakdown[i]
               IN /\ \A k \in 1..Len(CounterSeq) :
                         row[CounterSeq[k]]
                             = CacheTokens(call.stats, row.modelId, CounterSeq[k])
                                 + SessionTokens(call.sessions, row.modelId, CounterSeq[k])
                  /\ row.totalCost
                         = SumSeq([k \in 1..Len(CounterSeq) |->
                                      TokenCost(row.modelId, CounterSeq[k], row[CounterSeq[k]])])
        /\ SumSeq([i \in 1..Len(overview.modelBreakdown) |->
                      overview.modelBreakdown[i].totalCost]) = overview.totalCost

\* a supplement that meets a model the cache already has tokens for
C2_Witness ==
    /\ OnSupplementPath
    /\ \E m \in 1..Len(OverviewModels), k \in 1..Len(CounterSeq) :
           /\ CacheTokens(call.stats, OverviewModels[m], CounterSeq[k]) > 0
           /\ SessionTokens(call.sessions, OverviewModels[m], CounterSeq[k]) > 0

C5_OneBucketPerDate ==
    OnSupplementPath =>
        /\ \A i, j \in 1..Len(overview.dailyActivity) :
               i # j => overview.dailyActivity[i].date # overview.dailyActivity[j].date
        /\ overview.activeDays = Cardinality(DatesOf(overview.dailyActivity))

\* the sessions an overview is computed from, and whether the cache is used
SessionsUsed == IF call.sessions = NullArr THEN <<>> ELSE call.sessions
CacheUsed == ~(call.filters # NullObj /\ call.sessions # NullArr)

\* the absolute count of a counter over all models
AbsoluteCount(c) ==
    SumSeq([m \in 1..Len(OverviewModels) |->
               (IF CacheUsed THEN CacheTokens(call.stats, OverviewModels[m], c) ELSE 0)
                   + (IF CacheUsed /\ ~OnSupplementPath THEN 0
                      ELSE SessionTokens(SessionsUsed, OverviewModels[m], c))])

AbsoluteTotal ==
    AbsoluteCount("inputTokens") + AbsoluteCount("outputTokens")
        + AbsoluteCount("cacheReadInputTokens") + AbsoluteCount("cacheCreationInputTokens")

PercentOf(count) == IF AbsoluteTotal > 0 THEN Fixed1(count, AbsoluteTotal, 100) ELSE PlainZero

\* C6: the token composition holds the per-counter sums over all models
\* (cache plus supplement on the supplementation path), their total, and
\* each count's share of the total rounded to one decimal ('0' when the
\* total is 0).
C6_CompositionFromAbsoluteCounts ==
    (call.by # "none" /\ call.stats # NullObj) =>
        overview.tokenComposition
            = [input |-> AbsoluteCount("inputTokens"),
               output |-> AbsoluteCount("outputTokens"),
               cacheRead |-> AbsoluteCount("cacheReadInputTokens"),
               cacheWrite |-> AbsoluteCount("cacheCreationInputTokens"),
               total |-> AbsoluteTotal,
               percentages |->
                   [input |-> PercentOf(AbsoluteCount("inputTokens")),
                    output |-> PercentOf(AbsoluteCount("outputTokens")),
                    cacheRead |-> PercentOf(AbsoluteCount("cacheReadInputTokens")),
                    cacheWrite |-> PercentOf(AbsoluteCount("cacheCreationInputTokens"))]]

(***************************************************************************)
(* Properties of the session indexer (SpecIndexer)                         *)
(***************************************************************************)
\* the session id a log file stands for
FileSessionId(file) == IF file.sessionId # "" THEN file.sessionId ELSE file.basename

\* the session ids the index files and the readable log files carry
CarriedIds ==
    UNION {{projects[d].index.entries[i] : i \in 1..Len(projects[d].index.entries)}
               \cup {FileSessionId(projects[d].files[i]) :
                         i \in {j \in 1..Len(projects[d].files) :
                                   projects[d].files[j].readable}} :
           d \in 1..Len(projects)}

\* C4: getAllSessionIndexes returns exactly one entry per unique session
\* id, whatever mix of index entries and log files carries the id.
C4_OneEntryPerSessionId ==
    indexed =>
        /\ \A i, j \in 1..Len(indexes) : i # j => indexes[i].sessionId # indexes[j].sessionId
        /\ {indexes[i].sessionId : i \in 1..Len(indexes)} = CarriedIds

(***************************************************************************)
(* Properties of the token aggregation (SpecTokens)                        *)
(***************************************************************************)
TokenModels == {KeyOpus46, IdHaiku9}

\* a per-model usage object as its totals: model and counter to count
AsTotals(modelUsage) ==
    [m \in TokenModels |-> [c \in Counters |-> TokensIn(modelUsage, m, c)]]

\* the assistant events of a session list, in order
RECURSIVE AllEvents(_)
AllEvents(sessions) ==
    IF sessions = <<>> THEN <<>>
    ELSE Head(sessions).assistantMessages \o AllEvents(Tail(sessions))

\* one pass over all the events
OnePass(sessions) == aggregateSessionTokens([assistantMessages |-> AllEvents(sessions)])

\* a sequence in the order p
Reordered(seq, p) == [i \in 1..Len(seq) |-> seq[p[i]]]

\* C10: summing the per-session aggregates gives, per model and counter,
\* the totals of one pass over all the events, in whatever order the
\* sessions are taken and in whatever order each session's events are.
C10_PerSessionSumsEqualOnePass ==
    /\ AsTotals(summed) = AsTotals(OnePass(parsedSessions))
    /\ \A p \in Permutations(1..Len(parsedSessions)) :
           /\ AsTotals(AggregateUsage(<<>>, TokensBySession(Reordered(parsedSessions, p))))
                  = AsTotals(summed)
           /\ AsTotals(OnePass(Reordered(parsedSessions, p))) = AsTotals(summed)
    /\ \A i \in 1..Len(parsedSessions) :
           \A p \in Permutations(1..Len(parsedSessions[i].assistantMessages)) :
               AsTotals(aggregateSessionTokens(
                   [assistantMessages |-> Reordered(parsedSessions[i].assistantMessages, p)]))
                   = AsTotals(perSession[i].tokensByModel)

\* two sessions with tokens of the same model, one of them with two events
C10_Witness ==
    /\ Len(parsedSessions) >= 2
    /\ \E m \in TokenModels, c \in Counters :
           /\ TokensIn(perSession[1].tokensByModel, m, c) > 0
           /\ TokensIn(perSession[2].tokensByModel, m, c) > 0
    /\ \E i \in 1..Len(parsedSessions) : Len(parsedSessions[i].assistantMessages) >= 2
    /\ \E m \in TokenModels, c \in Counters : TokensIn(summed, m, c) > 0

(***************************************************************************)
(* Properties of the turn pairing (SpecTurns)                              *)
(***************************************************************************)
\* the positions of the prompts directly followed by an assistant message
AnsweredPrompts(msgs) ==
    {i \in 1..Len(msgs) :
        /\ msgs[i].type = "user"
        /\ i < Len(msgs)
        /\ msgs[i + 1].type = "assistant"}

\* the k-th smallest member of a set of positions
KthOf(positions, k) ==
    CHOOSE i \in positions : Cardinality({j \in positions : j < i}) = k - 1

\* the last position of the run of assistant messages that starts after i
RunEnd(msgs, i) ==
    CHOOSE e \in i..Len(msgs) :
        /\ \A j \in (i + 1)..e : msgs[j].type = "assistant"
        /\ (e < Len(msgs) => msgs[e + 1].type # "assistant")

\* C11: pairMessages returns, in order, one turn per prompt directly
\* followed by an assistant message; the turn's responses are the maximal
\* run of assistant messages after the prompt; unanswered prompts give no
\* turn; turnIndex counts the kept turns from 0.
C11_TurnsAreAnsweredPrompts ==
    turnSession # NullObj =>
        LET msgs == turnSession.messages
            kept == AnsweredPrompts(msgs)
        IN /\ Len(pairs) = Cardinality(kept)
           /\ \A k \in 1..Len(pairs) :
                  LET i == KthOf(kept, k)
                  IN /\ pairs[k].prompt = msgs[i]
                     /\ pairs[k].responses = SubSeq(msgs, i + 1, RunEnd(msgs, i))
                     /\ pairs[k].turnIndex = k - 1

\* an unanswered prompt between two answered ones, one with two responses
C11_Witness ==
    /\ turnSession # NullObj
    /\ Len(pairs) = 2
    /\ pairs[2].turnIndex = 1
    /\ Len(pairs[1].responses) = 2
    /\ pairs[2].prompt.timestamp > pairs[1].prompt.timestamp + 3

(***************************************************************************)
(* Properties of the anomaly detection (SpecAnomalies)                     *)
(***************************************************************************)
AnomalyMetrics == {"destructive commands", "write operations"}

\* a session's count of a metric
MetricCount(sess, metric) ==
    IF metric = "destructive commands" THEN sess.destructiveCount ELSE sess.writeCount

\* the sum of a metric over the sessions other than the i-th
OthersTotal(sessionStats, i, metric) ==
    SumSeq([j \in 1..Len(sessionStats) |->
               IF j = i THEN 0 ELSE MetricCount(sessionStats[j], metric)])

\* the leave-one-out average of the others is positive and the session's
\* count is more than 3 times it (n - 1 others)
ShouldFlag(sessionStats, i, metric) ==
    /\ Len(sessionStats) >= 3
    /\ OthersTotal(sessionStats, i, metric) > 0
    /\ MetricCount(sessionStats[i], metric) * (Len(sessionStats) - 1)
           > 3 * OthersTotal(sessionStats, i, metric)

\* the metrics the result flags for a session id
FlaggedMetrics(anomalies, sessionId) ==
    UNION {{anomalies[a].flags[f].metric : f \in 1..Len(anomalies[a].flags)} :
           a \in {b \in 1..Len(anomalies) : anomalies[b].sessionId = sessionId}}

\* C12: detectAnomalies returns nothing for fewer than 3 sessions and for
\* sessions with equal counts; otherwise it flags a session on a metric
\* exactly when the average of that metric over the other sessions is
\* positive and the session's count exceeds 3 times that average.
C12_FlaggedIffAboveLeaveOneOut ==
    secOp = "detectAnomalies" =>
        LET sessionStats == secArg.sessionStats
            anomalies == secResult.anomalies
        IN /\ Len(sessionStats) < 3 => anomalies = <<>>
           /\ (\A i, j \in 1..Len(sessionStats) :
                   /\ sessionStats[i].destructiveCount = sessionStats[j].destructiveCount
                   /\ sessionStats[i].writeCount = sessionStats[j].writeCount)
                  => anomalies = <<>>
           /\ \A i \in 1..Len(sessionStats) : \A metric \in AnomalyMetrics :
                  metric \in FlaggedMetrics(anomalies, sessionStats[i].sessionId)
                      <=> ShouldFlag(sessionStats, i, metric)
           /\ \A a \in 1..Len(anomalies) :
                  /\ anomalies[a].flags # <<>>
                  /\ \E i \in 1..Len(sessionStats) :
                         anomalies[a].sessionId = sessionStats[i].sessionId

\* one session flagged on destructive commands among sessions that have some
C12_Witness ==
    /\ secOp = "detectAnomalies"
    /\ Len(secArg.sessionStats) >= 3
    /\ Len(secResult.anomalies) = 1
    /\ "destructive commands" \in FlaggedMetrics(secResult.anomalies, 3)
    /\ \E i \in 1..Len(secArg.sessionStats) :
           /\ secArg.sessionStats[i].destructiveCount > 0
           /\ ~ShouldFlag(secArg.sessionStats, i, "destructive commands")

(***************************************************************************)
(* Properties of the Bash classification (SpecBash)                        *)
(***************************************************************************)
\* the categories in their fixed order
CategoryOrder == <<"sudo", "destructive", "permissions", "network", "packageManagers">>

PatternOf ==
    [sudo |-> SudoPattern, destructive |-> DestructivePattern,
     permissions |-> PermissionsPattern, network |-> NetworkPattern,
     packageManagers |-> PackageManagersPattern]

\* the positions, in the fixed order, of the categories whose pattern
\* matches the command
Matching(command) ==
    IF command = NullStr THEN {}
    ELSE {i \in 1..Len(CategoryOrder) : test(PatternOf[CategoryOrder[i]], command)}

\* C13: classifyBashCommand returns the first category, in the order sudo,
\* destructive, permissions, network, packageManagers, whose pattern matches
\* the command, and 'safe' when none matches or the command is null or
\* empty; a command matching sudo and another category is 'sudo'.
C13_FirstMatchingCategory ==
    secOp = "classifyBashCommand" =>
        LET matching == Matching(secArg.command)
        IN /\ matching = {} => secResult.category = "safe"
           /\ matching # {} =>
                  secResult.category
                      = CategoryOrder[CHOOSE i \in matching : \A j \in matching : i <= j]
           /\ (1 \in matching /\ Cardinality(matching) > 1) => secResult.category = "sudo"

\* a command that matches sudo and destructive
C13_Witness ==
    /\ secOp = "classifyBashCommand"
    /\ {1, 2} \subseteq Matching(secArg.command)
    /\ secResult.category = "sudo"

(***************************************************************************)
(* Properties of the MCP risk assessment (SpecMcp)                         *)
(***************************************************************************)
\* the positions of the env variables with a sensitive name
SensitiveAt(env) == {i \in 1..Len(env) : IsSensitiveName(env[i].k)}

\* a launch command is given
HasCommand(config) == config.command # NullStr /\ config.command # <<>>

\* the launch command is in the allowlist
InAllowlist(config) == HasCommand(config) /\ basename(config.command) \in knownCommands

\* C14 as stated: 'high' for 3 or more exposed variables or a launch command
\* that is not in the allowlist, 'medium' for 1 or 2 with a launch command
\* that is in the allowlist, 'low' otherwise.
C14_RiskLevelByAllowlist ==
    secOp = "assessMcpRisk" =>
        LET exposed == Cardinality(SensitiveAt(secArg.config.env))
        IN secResult.riskLevel
               = IF exposed >= 3 \/ ~InAllowlist(secArg.config) THEN "high"
                 ELSE IF exposed >= 1 THEN "medium"
                 ELSE "low"

\* C14: 'high' for 3 or more exposed variables or a launch command that is
\* given and whose base name is not in the allowlist, 'medium' for 1 or 2
\* with no launch command or an allowed one, 'low' otherwise.
C14_RiskLevelByGivenCommand ==
    secOp = "assessMcpRisk" =>
        LET exposed == Cardinality(SensitiveAt(secArg.config.env))
            unknown == HasCommand(secArg.config) /\ ~InAllowlist(secArg.config)
        IN /\ secResult.riskLevel
                  = IF exposed >= 3 \/ unknown THEN "high"
                    ELSE IF exposed >= 1 THEN "medium"
                    ELSE "low"
           /\ secResult.unknownCommand = unknown

\* two exposed variables, no launch command, medium risk
C14_Witness ==
    /\ secOp = "assessMcpRisk"
    /\ ~HasCommand(secArg.config)
    /\ Cardinality(SensitiveAt(secArg.config.env)) = 2
    /\ Len(secArg.config.env) = 3
    /\ secResult.riskLevel = "medium"

\* the two configurations differ only in what a preview hides: the value of
\* a variable without sensitive name, or the characters after the 4th of a
\* sensitive value longer than 4 characters
DifferOnlyInHidden(env, altEnv) ==
    /\ Len(env) = Len(altEnv)
    /\ \A i \in 1..Len(env) :
           /\ env[i].k = altEnv[i].k
           /\ \/ env[i].v = altEnv[i].v
              \/ ~IsSensitiveName(env[i].k)
              \/ /\ env[i].v.type = "string" /\ altEnv[i].v.type = "string"
                 /\ Len(env[i].v.chars) > 4 /\ Len(altEnv[i].v.chars) > 4
                 /\ SubSeq(env[i].v.chars, 1, 4) = SubSeq(altEnv[i].v.chars, 1, 4)

\* C15: the assessment carries, for each variable with a sensitive name and
\* for no other, a preview that is the first 4 characters and an ellipsis
\* for a value longer than 4 characters and the redacted placeholder
\* otherwise; two configurations that differ only in what a preview hides
\* have the same assessment.
C15_OnlyPreviewsLeave ==
    secOp = "assessMcpRisk" =>
        LET env == secArg.config.env
            exposed == secResult.exposedSecrets
        IN /\ Len(exposed) = Cardinality(SensitiveAt(env))
           /\ \A i \in SensitiveAt(env) :
                  LET e == exposed[Cardinality({j \in SensitiveAt(env) : j <= i})]
                  IN /\ e.name = env[i].k
                     /\ DOMAIN e = {"name", "preview"}
                     /\ IF env[i].v.type = "string" /\ Len(env[i].v.chars) > 4
                        THEN /\ e.preview = SubSeq(env[i].v.chars, 1, 4) \o <<".", ".", ".">>
                             /\ ~includes(e.preview, env[i].v.chars)
                        ELSE e.preview = <<"*", "*", "*">>
           /\ DOMAIN secResult
                  = {"name", "command", "args", "riskLevel", "exposedSecrets", "unknownCommand"}
           /\ DifferOnlyInHidden(env, secAltArg.config.env) => secResult = secAltResult

\* two sensitive values that differ after their 4th character, and the
\* same assessment for both
C15_Witness ==
    /\ secOp = "assessMcpRisk"
    /\ secArg # secAltArg
    /\ DifferOnlyInHidden(secArg.config.env, secAltArg.config.env)
    /\ \E i \in SensitiveAt(secArg.config.env) :
           secArg.config.env[i].v # secAltArg.config.env[i].v
    /\ secResult = secAltResult
    /\ Len(secResult.exposedSecrets) >= 2

(***************************************************************************)
(* Properties of the security audit (SpecAudit)                            *)
(***************************************************************************)
\* the modes that bypass confirmation
BypassingModes == {"bypassPermissions", "fullAutoMode", "yolo"}

\* the Bash commands a log ran, in order
CommandsRun(log) ==
    SelectSeq([c \in 1..Len(log.assistant) |-> log.assistant[c].toolCalls[1]],
              LAMBDA tool : tool.name = "Bash")

\* the commands with a category other than 'safe', with that category
NonSafe(commands) ==
    LET kept == SelectSeq(commands, LAMBDA tool : classifyBashCommand(tool.command) # "safe")
    IN [c \in 1..Len(kept) |->
           [command |-> kept[c].command, category |-> classifyBashCommand(kept[c].command)]]

\* C16: the audit lists a session in dangerousSessions exactly when the
\* permission mode recorded in its log is bypassPermissions, fullAutoMode or
\* yolo, and the session's flaggedCommands are the Bash commands it ran whose
\* category is not 'safe'.
C16_DangerousIffBypassingMode ==
    secOp = "getSecurityAudit" =>
        LET logs == secArg.logs
            dangerous == secResult.dangerousSessions
        IN /\ Keys(dangerous)
                  = {logs[i].sessionId : i \in {j \in 1..Len(logs) :
                                                   logs[j].permissionMode \in BypassingModes}}
           /\ \A i \in 1..Len(logs) :
                  HasKey(dangerous, logs[i].sessionId) =>
                      LET flagged == GetKey(dangerous, logs[i].sessionId).flaggedCommands
                      IN [c \in 1..Len(flagged) |->
                             [command |-> flagged[c].command,
                              category |-> flagged[c].category]]
                             = NonSafe(CommandsRun(logs[i]))

(***************************************************************************)
(* Properties of the session filters (SpecFilters)                         *)
(***************************************************************************)
\* a precedes or equals b in lexicographic order: a is a prefix of b, or at
\* the first position where they differ a has the smaller code unit
LexLeq(a, b) ==
    \/ /\ Len(a) <= Len(b)
       /\ \A i \in 1..Len(a) : a[i] = b[i]
    \/ \E i \in 1..Len(a) :
           /\ i <= Len(b)
           /\ \A j \in 1..(i - 1) : a[j] = b[j]
           /\ CodeUnit[a[i]] < CodeUnit[b[i]]

\* the session passes the filters
Passes(s, filters) ==
    /\ filters.from # NullStr => (s.date # NullStr /\ LexLeq(filters.from, s.date))
    /\ filters.to # NullStr => (s.date # NullStr /\ LexLeq(s.date, filters.to))
    /\ filters.project # NullStr => s.project = filters.project

\* C17: filtering keeps exactly the sessions whose date is within the given
\* bounds, both inclusive, in lexicographic order (a session without date
\* fails any bound) and whose project is the given one, in their order; a
\* null filter returns the full list.
C17_KeepsExactlyPassing ==
    fltDone =>
        IF fltFilters = NullObj THEN fltResult = fltSessions
        ELSE fltResult = SelectSeq(fltSessions, LAMBDA s : Passes(s, fltFilters))

\* both bounds and the project given, a session on a bound kept between two
\* that are dropped, one of them for its missing date
C17_Witness ==
    /\ fltDone
    /\ fltFilters # NullObj
    /\ fltFilters.from # NullStr /\ fltFilters.to # NullStr /\ fltFilters.project # NullStr
    /\ Len(fltSessions) = 3
    /\ Len(fltResult) = 1
    /\ fltResult[1] = fltSessions[2]
    /\ fltResult[1].date = fltFilters.from
    /\ fltSessions[1].date = NullStr
    /\ fltSessions[3].date = Date19

(***************************************************************************)
(* The overview without a summary cache (Spec)                             *)
(***************************************************************************)
\* C20: with a null cache buildOverview returns the empty overview, empty =
\* true with an error message, whatever the filters and the sessions are.
C20_NoCacheGivesEmptyOverview ==
    (call.by # "none" /\ call.stats = NullObj) =>
        /\ DOMAIN overview = {"empty", "error"}
        /\ overview.empty = TRUE
        /\ overview.error # ""

\* a call without cache, with filters and with sessions
C20_Witness ==
    /\ call.by = "buildOverview"
    /\ call.stats = NullObj
    /\ call.filters # NullObj
    /\ call.sessions # NullArr
    /\ Len(call.sessions) = 2
    /\ overview.empty = TRUE

(***************************************************************************)
(* The memoized overview (SpecServer)                                      *)
(***************************************************************************)
\* request r is issued in this step
Issued(r) == inflight[r].pc = "idle" /\ inflight'[r].pc # "idle"

\* request r is answered in this step
Answered(r) == inflight[r].pc # "done" /\ inflight'[r].pc = "done"

\* the memo that an unfiltered request may be answered from
MemoUsable == cachedOverview # NullObj /\ srvNow - cacheTime < 5000

\* C18: an unfiltered overview request is answered from the memoized
\* overview, without reading the summary cache, exactly when a memo exists
\* and is younger than 5000 ms; otherwise the summary cache is read again and
\* the overview built from it is stored as the memo with the current time.
\* A filtered request neither returns nor changes the memo.  The watcher's
\* invalidation empties the memo, and nothing but an unfiltered request sets
\* it.
C18_MemoServedWhileFresh ==
    [][ /\ \A r \in 1..MaxRequests :
            /\ (Issued(r) /\ inflight'[r].filters = NullObj) =>
                   IF MemoUsable
                   THEN /\ inflight'[r].pc = "done"
                        /\ inflight'[r].response = cachedOverview
                        /\ inflight'[r].stats = NullObj
                        /\ UNCHANGED <<cachedOverview, cacheTime>>
                   ELSE inflight'[r].pc = "readStatsCache"
            /\ (Answered(r) /\ ~Issued(r) /\ inflight'[r].filters = NullObj) =>
                   /\ inflight[r].pc = "haveStats"
                   /\ inflight'[r].response = buildOverview(inflight[r].stats, NullObj, NullArr)
                   /\ cachedOverview' = inflight'[r].response
                   /\ cacheTime' = srvNow
            /\ (inflight'[r] # inflight[r] /\ inflight'[r].filters # NullObj) =>
                   /\ UNCHANGED <<cachedOverview, cacheTime>>
                   /\ ~inflight'[r].fromMemo
                   /\ Answered(r) => inflight[r].stats # NullObj
        /\ notified' # notified => cachedOverview' = NullObj
        /\ (cachedOverview' # cachedOverview /\ cachedOverview' # NullObj) =>
               \E r \in 1..MaxRequests : Answered(r) /\ inflight'[r].filters = NullObj
      ]_vars

\* a request was answered from a memo 2500 ms old while another one, issued
\* when the memo was 5000 ms old, read the summary cache again
C18_Witness ==
    /\ inflight[1].pc = "done" /\ ~inflight[1].fromMemo /\ inflight[1].filters = NullObj
    /\ inflight[2].pc = "done" /\ inflight[2].fromMemo
    /\ srvNow - cacheTime = TickMs
    /\ inflight[2].response = cachedOverview

(***************************************************************************)
(* The change of the summary cache file (SpecServer)                       *)
(***************************************************************************)
\* C19: when the summary cache file changes, the server invalidates what it
\* memoized and sends a refresh event to every connected client, so that a
\* request issued after the event is answered from data read after the
\* change.
C19_ChangeInvalidatesAndNotifies ==
    [][ /\ notified' # notified =>
               /\ cachedOverview' = NullObj
               /\ cachedSessions' = NullArr
               /\ \A c \in sseClients : delivered'[c] = notified'
        /\ \A r \in 1..MaxRequests :
               Answered(r) =>
                   /\ inflight'[r].statsReadAt >= inflight'[r].after
                   /\ inflight'[r].sessionsReadAt # Null =>
                          inflight'[r].sessionsReadAt >= inflight'[r].after
      ]_vars

(***************************************************************************)
(* The timestamps of a session (SpecParser)                                *)
(***************************************************************************)
\* the instants of the events of the file that carry a timestamp
StampsOf(lines) ==
    {getTime(lines[i].timestamp) :
         i \in {j \in 1..Len(lines) : lines[j].kind = "event" /\ lines[j].timestamp # ""}}

\* C21: whatever the order of the lines, firstTimestamp is the least and
\* lastTimestamp the greatest of the timestamps of the events of the file,
\* duration is their difference, and with no timestamp in the file both are
\* null and duration is 0.  (Files with a timestamp that is no date are left
\* open.)
C21_TimestampsAreMinAndMax ==
    fileSession # NullObj =>
        LET stamps == StampsOf(fileLines)
        IN IF stamps = {}
           THEN /\ fileSession.firstTimestamp = Null
                /\ fileSession.lastTimestamp = Null
                /\ fileSession.duration = 0
           ELSE NaN \notin stamps =>
                    /\ fileSession.firstTimestamp = MinDate(stamps)
                    /\ fileSession.lastTimestamp = MaxDate(stamps)
                    /\ fileSession.duration = MaxDate(stamps) - MinDate(stamps)
                    /\ fileSession.duration >= 0

\* the same for files without an event at the epoch
C21_HoldsAwayFromEpoch ==
    (fileSession # NullObj /\ 0 \notin StampsOf(fileLines)) => C21_TimestampsAreMinAndMax

(***************************************************************************)
(* Lines that are no JSON (SpecParser)                                     *)
(***************************************************************************)
\* the file without its blank and malformed lines
WithoutBadLines(lines) == SelectSeq(lines, LAMBDA l : l.kind \notin {"blank", "malformed"})

\* C22: the session read from a file is the session read from the same file
\* with every blank line and every line that is no JSON removed.
C22_BadLinesAreSkipped ==
    fileSession # NullObj =>
        fileSession = parseSessionLines("f", WithoutBadLines(fileLines))

\* a file with a malformed line between two events, both of which are kept
C22_Witness ==
    /\ fileSession # NullObj
    /\ Len(fileLines) = 3
    /\ fileLines[1].kind = "event"
    /\ fileLines[2].kind = "malformed"
    /\ fileLines[3].kind = "event" /\ fileLines[3].timestamp = Instant7
    /\ fileSession.messageCount = 2
    /\ fileSession.lastTimestamp = 7

(***************************************************************************)
(* When the probe stops (SpecProbeFair)                                    *)
(***************************************************************************)
\* the probe has read more than 50 non-blank lines and found the session
\* id, the working directory and a first prompt
ProbeHasEnough ==
    /\ probe.linesRead > 50
    /\ probe.sessionId # "" /\ probe.cwd # "" /\ probe.firstPrompt # ""

ProbeOver == probe.status \in {"stopped", "end", "failed"}

\* C23: the probe stops before the end of the file only when it has read
\* more than 50 non-blank lines and found session id, working directory and
\* first prompt, and then it does stop; otherwise it reads to the end of the
\* file; and on a finite file it comes to an end.
C23_ProbeStopsOnlyWithEnough ==
    /\ [](probe.status = "stopped" => ProbeHasEnough)
    /\ [](probe.status \in {"reading", "end"} => ~ProbeHasEnough)
    /\ [](probe.position <= MaxProbeLines /\ probe.linesRead <= probe.position)
    /\ <>ProbeOver

\* the probe stopped at its 51st non-blank line, after a blank one
C23_Witness ==
    /\ probe.status = "stopped"
    /\ probe.linesRead = 51
    /\ probe.position = 52

(***************************************************************************)
(* Sessions without timestamps (SpecParser, Spec)                          *)
(***************************************************************************)
\* C24: a session without a usable timestamp, that is, none of whose events
\* carries a timestamp that is a date, gets duration 0 and the date null.
C24_NoTimestampGivesNullDate ==
    (fileSummary # NullObj /\ StampsOf(fileLines) \subseteq {NaN}) =>
        /\ fileSummary.duration = 0
        /\ fileSummary.date = ""

\* the same for sessions none of whose events carries a timestamp at all
C24_HoldsWithoutAnyTimestamp ==
    (fileSummary # NullObj /\ StampsOf(fileLines) = {}) =>
        /\ fileSummary.duration = 0
        /\ fileSummary.date = ""

\* the number of the sessions that have a date
DatedCount(sessions) == Len(SelectSeq(sessions, LAMBDA s : s.date # Null))

\* in an overview built from sessions, a session without a date adds to
\* totalSessions, totalMessages and totalCost and to no daily bucket
C24_UndatedCountedInTotals ==
    ( /\ call.by = "buildOverview"
      /\ call.stats # NullObj /\ call.filters # NullObj /\ call.sessions # NullArr ) =>
        /\ overview.totalSessions = Len(call.sessions)
        /\ overview.totalMessages = SumMessages(call.sessions)
        /\ overview.totalCost = SessionsCost(call.sessions)
        /\ SumSeq([i \in 1..Len(overview.dailyActivity) |->
                      overview.dailyActivity[i].sessionCount]) = DatedCount(call.sessions)

(***************************************************************************)
(* The arguments of buildOverview (Spec)                                   *)
(***************************************************************************)
\* C25: buildOverview leaves the cache object as it was, its modelUsage
\* counters and hourCounts included, so that the same call made once more
\* gives the same totalCost, tokenComposition and modelBreakdown.
C25_ArgumentsUnchanged ==
    (calls = 2 /\ call.stats # NullObj) =>
        /\ stats.modelUsage = call.stats.modelUsage
        /\ stats.hourCounts = call.stats.hourCounts
        /\ overviewAgain.totalCost = overview.totalCost
        /\ overviewAgain.tokenComposition = overview.tokenComposition
        /\ overviewAgain.modelBreakdown = overview.modelBreakdown

\* the same for the calls that do not take the supplementation path
C25_HoldsWithoutSupplement ==
    (calls = 2 /\ call.stats # NullObj /\ ~OnSupplementPath) => C25_ArgumentsUnchanged

(***************************************************************************)
(* Requests racing with invalidations (SpecServer)                         *)
(***************************************************************************)
\* C26: whatever the interleaving of unfiltered overview requests with
\* invalidations, an unfiltered request that begins after an invalidation is
\* answered with an overview built from a read of the summary cache that
\* began after that invalidation, and a request in flight when the
\* invalidation ran does not put back a memo built from the older read.
C26_NoStaleMemoAfterInvalidation ==
    /\ \A r \in 1..MaxRequests :
           (inflight[r].pc = "done" /\ inflight[r].filters = NullObj) =>
               inflight[r].statsReadAt >= inflight[r].after
    /\ cachedOverview # NullObj => overviewReadAt >= notified

(***************************************************************************)
(* Session files whose processing throws (SpecAudit)                       *)
(***************************************************************************)
\* the logs that are processed to completion
CompletedLogs(logs) ==
    SelectSeq(logs, LAMBDA log :
        log.readable /\ \A c \in 1..Len(log.assistant) :
                            \A t \in 1..Len(log.assistant[c].toolCalls) :
                                ~ThrowsInTrackDir(log.assistant[c].toolCalls[t]))

\* C27: a session file whose processing throws is skipped and contributes
\* nothing: the audit is the audit of the sessions that were processed to
\* completion.
C27_ThrowingSessionContributesNothing ==
    secOp = "getSecurityAudit" =>
        secResult = getSecurityAudit(CompletedLogs(secArg.logs))

(***************************************************************************)
(* How many sessions can be anomalous (SpecAnomalies)                      *)
(***************************************************************************)
\* the number of the sessions flagged on a metric
FlaggedOn(anomalies, metric) ==
    Cardinality({i \in 1..Len(anomalies) :
                    \E f \in 1..Len(anomalies[i].flags) : anomalies[i].flags[f].metric = metric})

\* C28: of n >= 3 sessions fewer than (n + 2) / 3 are flagged on one metric;
\* of 3 or 4 sessions at most one is flagged for destructive commands and at
\* most one for write operations.
C28_FewSessionsFlagged ==
    (secOp = "detectAnomalies" /\ Len(secArg.sessionStats) >= 3) =>
        \A metric \in AnomalyMetrics :
            LET n == Len(secArg.sessionStats)
                k == FlaggedOn(secResult.anomalies, metric)
            IN /\ 3 * k < n + 2
               /\ n \in {3, 4} => k <= 1

\* four sessions of which one is flagged for destructive commands and
\* another one for write operations
C28_Witness ==
    /\ secOp = "detectAnomalies"
    /\ Len(secArg.sessionStats) = 4
    /\ Len(secResult.anomalies) = 2
    /\ \A metric \in AnomalyMetrics : FlaggedOn(secResult.anomalies, metric) = 1

(***************************************************************************)
(* The daily cost series of an overview built from sessions (Spec)         *)
(***************************************************************************)
\* the last call built the overview from sessions, all of which have a date
BuiltFromDatedSessions ==
    /\ call.by = "buildOverview"
    /\ call.stats # NullObj /\ call.filters # NullObj /\ call.sessions # NullArr
    /\ \A i \in 1..Len(call.sessions) : call.sessions[i].date # Null

\* C29: in an overview built from sessions that all have a date, the costs
\* of the daily series add up to totalCost.
C29_DailyCostsAddUpToTotal ==
    BuiltFromDatedSessions =>
        SumSeq([i \in 1..Len(overview.dailyCosts) |-> overview.dailyCosts[i].cost])
            = overview.totalCost

(***************************************************************************)
(* The answers of getExpensivePrompts (SpecExpensive)                      *)
(***************************************************************************)
\* a fresh scan restricted to the filters: the turns that cost something
\* and pass the filters, dearest first, at most fifty of them
FreshRanking(files, filters) ==
    TopOf(SortPrompts(FilterPrompts(AllPrompts(<<>>, files), filters)))

\* the turns on disk that cost something
PricedTurns(files) == Len(AllPrompts(<<>>, files))

\* C30: every answer of getExpensivePrompts is what a fresh scan of the
\* session files, restricted to the filters of the call, gives.
C30_AnswerIsFreshScan ==
    expensiveCalls > 0 =>
        expensiveResult = FreshRanking(expensiveCall.files, expensiveCall.filters)

\* the answer of the first call when at most fifty turns cost something
C30_FirstAnswerOfFewTurns ==
    (expensiveCalls = 1 /\ PricedTurns(expensiveCall.files) <= TopPrompts) =>
        expensiveResult = FreshRanking(expensiveCall.files, expensiveCall.filters)

\* the first call answers without a turn that a fresh scan gives
C30_TruncatedBeforeFiltering ==
    /\ expensiveCalls = 1
    /\ Len(expensiveResult) < Len(FreshRanking(expensiveCall.files, expensiveCall.filters))

\* a later call answers without a turn written since the first
C30_StaleRanking ==
    /\ expensiveCalls = 2
    /\ PricedTurns(expensiveCall.files) <= TopPrompts
    /\ expensiveResult # FreshRanking(expensiveCall.files, expensiveCall.filters)

====
